---- MODULE Spec2Model ----
(***************************************************************************)
(* Model of windanalysis (src/wind_analysis_tool.py), the wind time-series *)
(* analysis engine of vowather.  One call of windanalysis is a process     *)
(* whose position is pc; every section of the function body is one action. *)
(* A caller may call again after a return and may write into the reports   *)
(* it was given; the report of the call before the current one is kept.    *)
(* A third specification runs the four analyses that follow the statistics *)
(* in every order and interleaving of their steps.                         *)
(*                                                                         *)
(* Arithmetic.  Speeds are integers (src/main.py:469 parses them with      *)
(* int()).  The mean is the rational toplam/n and the sample variance the  *)
(* rational vn/vd with vn = n*sum(x^2) - sum(x)^2 and vd = n*(n-1).  Every *)
(* real quantity the function compares (thresholds, volatility, hourly     *)
(* means) has the form a + b*sigma with a, b rational and sigma the square *)
(* root of the variance; such a number is the record                       *)
(* [an, ad, bn, bd] = an/ad + (bn/bd)*sigma and comparisons are decided    *)
(* exactly by squaring.  Python computes the same quantities in binary     *)
(* floating point; the model is the exact-arithmetic reading of the code.  *)
(* Python indices are 0-based: index k of a list is element k+1 of the     *)
(* sequence that models it.                                                *)
(*                                                                         *)
(* Strings with non-ASCII letters are transliterated ("BASARISIZ").        *)
(* Direction codes are numbered 1, 2, ... ; the rendering arguments        *)
(* (verbose, output_format, save_svg) are left at their defaults.          *)
(***************************************************************************)
EXTENDS Integers, Sequences, FiniteSets, TLC

VARIABLES
    data,                  \* the argument of windanalysis
    data_none,             \* TRUE when the argument is None
    pc,                    \* position in the body of windanalysis
    hata_tipi,             \* the exception that left the function, "" if none
    DURUM_KODLARI,         \* the module-level table of status codes
    ruzgar_hizlari, ruzgar_yonleri, sicakliklar, zaman_damgalari,
    istat,                 \* the statistics and thresholds of lines 108-139
    anomaliler,
    i, hiz_artis_periyotlari, hiz_azalis_periyotlari, sabit_periyotlar,
    yon_frekans, hakim_yon, yon_dagilim,
    saat_analizi, current_hour, hour_speeds,
    rapor,                 \* the returned dictionary, [durum |-> "YOK"] before the return
    cagri,                 \* number of the current call of windanalysis
    onceki_data,           \* the argument of the call before the current one
    onceki_rapor,          \* the report the caller holds from that call
    bilesen                \* progress of the four analyses when run in any order

vars == << data, data_none, pc, hata_tipi, DURUM_KODLARI,
           ruzgar_hizlari, ruzgar_yonleri, sicakliklar, zaman_damgalari,
           istat, anomaliler,
           i, hiz_artis_periyotlari, hiz_azalis_periyotlari, sabit_periyotlar,
           yon_frekans, hakim_yon, yon_dagilim,
           saat_analizi, current_hour, hour_speeds, rapor,
           cagri, onceki_data, onceki_rapor, bilesen >>

\* what the caller keeps between calls
cagiran == << cagri, onceki_data, onceki_rapor >>

----------------------------------------------------------------------------
(* Bounds of the checked inputs *)

MaxLen == 4            \* longest sequence of the speed and direction families
MaxSpeed == 3          \* speeds range over -1 .. MaxSpeed
MaxLong == 6           \* longest sequence of the outlier family
NumDirs == 3           \* direction codes of the direction family
MaxDirSamples == 31    \* longest sequence of the many-direction family
MaxHourLen == 3        \* longest sequence of the hour family
MaxClock == 2          \* values the wall clock can show
MaxGust == 12          \* length of the sequences of the two-gust family
MaxCalls == 2          \* calls of windanalysis in a sequence of calls
MaxCallLen == 2        \* longest sequence passed in a sequence of calls

FirstHour == 10        \* hour of the first sample of the example data

----------------------------------------------------------------------------
(* Integer helpers *)

Sgn(x) == IF x > 0 THEN 1 ELSE IF x < 0 THEN -1 ELSE 0

Abs(x) == IF x < 0 THEN -x ELSE x

RECURSIVE SumSeq(_)
SumSeq(s) == IF s = << >> THEN 0 ELSE Head(s) + SumSeq(Tail(s))

RECURSIVE SumSq(_)
SumSq(s) == IF s = << >> THEN 0 ELSE Head(s) * Head(s) + SumSq(Tail(s))

RECURSIVE MinSeq(_)
MinSeq(s) ==
    IF Len(s) = 1 THEN s[1]
    ELSE LET m == MinSeq(Tail(s)) IN IF m < Head(s) THEN m ELSE Head(s)

RECURSIVE MaxSeq(_)
MaxSeq(s) ==
    IF Len(s) = 1 THEN s[1]
    ELSE LET m == MaxSeq(Tail(s)) IN IF m > Head(s) THEN m ELSE Head(s)

\* the k-th smallest element of s (k = 1 .. Len(s))
KthSmallest(s, k) ==
    CHOOSE v \in {s[j] : j \in 1..Len(s)} :
        /\ Cardinality({j \in 1..Len(s) : s[j] < v}) < k
        /\ Cardinality({j \in 1..Len(s) : s[j] <= v}) >= k

----------------------------------------------------------------------------
(* Numbers of the form an/ad + (bn/bd)*sigma, sigma^2 = vn/vd *)

RECURSIVE GCD(_, _)
GCD(a, b) == IF b = 0 THEN a ELSE GCD(b, a % b)

\* the number an/ad + (bn/bd)*sigma with both fractions in lowest terms
Num(an, ad, bn, bd) ==
    LET ga == GCD(Abs(an), ad)
        gb == GCD(Abs(bn), bd)
    IN  [an |-> an \div ga, ad |-> ad \div ga, bn |-> bn \div gb, bd |-> bd \div gb]

Rat(n, d) == Num(n, d, 0, 1)

Add(x, y) ==
    Num(x.an * y.ad + y.an * x.ad, x.ad * y.ad,
        x.bn * y.bd + y.bn * x.bd, x.bd * y.bd)

Sub(x, y) ==
    Num(x.an * y.ad - y.an * x.ad, x.ad * y.ad,
        x.bn * y.bd - y.bn * x.bd, x.bd * y.bd)

\* x * p/q with q > 0
Scale(x, p, q) == Num(x.an * p, x.ad * q, x.bn * p, x.bd * q)

\* x / (p/q) for a rational p/q > 0
DivRat(x, p, q) == Num(x.an * q, x.ad * p, x.bn * q, x.bd * p)

\* sign of x, given the variance vn/vd (ad, bd, vd > 0, vn >= 0)
Sign(x, vn, vd) ==
    LET sa == Sgn(x.an)
        sb == IF vn = 0 THEN 0 ELSE Sgn(x.bn)
    IN  IF sb = 0 THEN sa
        ELSE IF sa = 0 \/ sa = sb THEN sb
        ELSE sa * Sgn(x.an * x.an * x.bd * x.bd * vd
                      - x.bn * x.bn * vn * x.ad * x.ad)

Gt(x, y, vn, vd) == Sign(Sub(x, y), vn, vd) > 0

Lt(x, y, vn, vd) == Sign(Sub(x, y), vn, vd) < 0

\* round(an/ad * 100) for a rational with ad > 0, ties to the even neighbour:
\* the value of round(x, 2) in hundredths
Round2(an, ad) ==
    LET t  == 100 * an
        fl == IF t >= 0 THEN t \div ad ELSE -((-t + ad - 1) \div ad)
        r2 == 2 * (t - fl * ad)
    IN  IF r2 < ad THEN fl
        ELSE IF r2 > ad THEN fl + 1
        ELSE IF fl % 2 = 0 THEN fl ELSE fl + 1

----------------------------------------------------------------------------
(* The inputs: sequences of samples shaped as the dictionaries of the      *)
(* example data (lines 806-816).  zaman.tam, the time label, is the        *)
(* 0-based position of the sample, so that a label names its sample.       *)

Sample(k, h, y, s, t) ==
    [zaman |-> [tam |-> k - 1, saat |-> t],
     sicaklik |-> s,
     ruzgar |-> [yon |-> y, hiz |-> h]]

HourOf(k) == (FirstHour + k - 1) % 24

\* -1 stands for the malformed speeds the function does not reject
Speeds == (0 - 1) .. MaxSpeed

\* every speed sequence up to MaxLen; one direction, one temperature, one
\* sample per hour
SpeedInputs ==
    UNION { { [k \in 1..n |-> Sample(k, f[k], 1, 8, HourOf(k))] : f \in [1..n -> Speeds] }
            : n \in 0..MaxLen }

\* longer sequences: one background speed and up to two samples that leave
\* it, long enough for anomalies and for a run of each trend
OutlierInputs ==
    UNION { { [k \in 1..n |-> Sample(k, IF k = p THEN u ELSE IF k = q THEN v ELSE b,
                                     1, 8, HourOf(k))]
              : b \in Speeds, u \in Speeds, v \in Speeds, p \in 1..n, q \in 1..n }
            : n \in (MaxLen + 1)..MaxLong }

\* every direction sequence over NumDirs codes
DirInputs ==
    UNION { { [k \in 1..n |-> Sample(k, 1, g[k], 8, HourOf(k))] : g \in [1..n -> 1..NumDirs] }
            : n \in 1..MaxLen }

\* n samples with d distinct directions: 1, 2, .., d-1 once each, d for the rest
ManyDirInputs ==
    { [k \in 1..n |-> Sample(k, 1, IF k < d THEN k ELSE d, 8, HourOf(k))]
      : n \in 1..MaxDirSamples, d \in 1..MaxDirSamples } 

\* speeds 0..2 with hours that repeat, alternate or return
HourInputs ==
    UNION { { [k \in 1..n |-> Sample(k, f[k], 1, 8, t[k])]
              : f \in [1..n -> 0..2], t \in [1..n -> {FirstHour, FirstHour + 1}] }
            : n \in 1..MaxHourLen }

\* calm or gusty samples, each cold or warm, long enough for anomalies
TempInputs ==
    { [k \in 1..(MaxLen + 1) |-> Sample(k, f[k], 1, c[k], HourOf(k))]
      : f \in [1..(MaxLen + 1) -> {0, MaxSpeed}], c \in [1..(MaxLen + 1) -> {6, 10}] }

\* a calm period that ends in two gusts, each at the usual or a low
\* temperature: long enough for both gusts to be anomalies
GustInputs ==
    { [k \in 1..MaxGust |->
         Sample(k, IF k = MaxGust - 1 THEN a ELSE IF k = MaxGust THEN b ELSE 0,
                1, IF k = MaxGust - 1 THEN c ELSE IF k = MaxGust THEN e ELSE 8,
                HourOf(k))]
      : a \in {MaxSpeed - 1, MaxSpeed}, b \in {MaxSpeed - 1, MaxSpeed},
        c \in {2, 8}, e \in {2, 8} }

\* lines 806-816: the example data of the module (GGD = 1, GD = 2, G = 3)
OrnekHizlar == << 11, 11, 11, 13, 15, 22, 18, 14, 12 >>

OrnekSicakliklar == << 6, 7, 8, 9, 10, 9, 8, 7, 6 >>

OrnekYonler == << 1, 1, 1, 2, 2, 2, 1, 1, 3 >>

OrnekVeri ==
    [k \in 1..Len(OrnekHizlar) |->
        Sample(k, OrnekHizlar[k], OrnekYonler[k], OrnekSicakliklar[k], HourOf(k))]

\* calm or gusty short sequences, the arguments of a sequence of calls
CallInputs ==
    { d \in SpeedInputs : /\ Len(d) <= MaxCallLen
                          /\ \A k \in 1..Len(d) : d[k].ruzgar.hiz \in {0, MaxSpeed} }

\* the codes a caller writes into the table of a report it holds
CagiranKodlari == {99}

\* the arguments of the runs in which the four analyses take any order
AnyInputs == CallInputs \cup {OrnekVeri}

\* no analysis has started
BilesenBasi ==
    [a |-> "hazir", t |-> "hazir", d |-> "hazir", h |-> "hazir",
     sira |-> << >>, karisik |-> FALSE]

Inputs ==
    SpeedInputs \cup OutlierInputs \cup DirInputs \cup ManyDirInputs
        \cup HourInputs \cup TempInputs \cup GustInputs \cup {OrnekVeri}

Clock == 1..MaxClock

----------------------------------------------------------------------------
(* Lines 17-63: the status table (the codes; descriptions and colours are  *)
(* presentation data)                                                      *)

DurumKodlariTablosu ==
    [ad \in {"NORMAL", "DUSUK_RUZGAR", "YUKSEK_RUZGAR", "ANOMALI_YUKSEK",
             "ANOMALI_DUSUK", "ISTIKRARSIZ", "TREND_ARTIS", "TREND_AZALIS",
             "TREND_SABIT"} |->
        [kod |-> CASE ad = "NORMAL" -> 0
                   [] ad = "DUSUK_RUZGAR" -> 1
                   [] ad = "YUKSEK_RUZGAR" -> 2
                   [] ad = "ANOMALI_YUKSEK" -> 3
                   [] ad = "ANOMALI_DUSUK" -> 4
                   [] ad = "ISTIKRARSIZ" -> 5
                   [] ad = "TREND_ARTIS" -> 10
                   [] ad = "TREND_AZALIS" -> 11
                   [] OTHER -> 12]]

----------------------------------------------------------------------------
(* Lines 79-84: the empty-input test and the failure record *)

\* (variant: only None is taken for missing data)
VeriYok_None(d, none) == none

VeriYok(d, none) == none \/ Len(d) = 0

HataRaporu ==
    [hata |-> "Veri bulunamadi", durum_kodu |-> -1, durum |-> "BASARISIZ"]

----------------------------------------------------------------------------
(* Lines 108-139: statistics, thresholds and the overall status *)

\* statistics.mean
Ortalama(s) == Rat(SumSeq(s), Len(s))

\* statistics.median
Medyan(s) ==
    LET n == Len(s)
    IN  IF n % 2 = 1 THEN Rat(KthSmallest(s, (n + 1) \div 2), 1)
        ELSE Rat(KthSmallest(s, n \div 2) + KthSmallest(s, n \div 2 + 1), 2)

\* numerator and denominator of the sample variance (n-1 denominator)
VaryansPay(s) == Len(s) * SumSq(s) - SumSeq(s) * SumSeq(s)

VaryansPayda(s) == IF Len(s) > 1 THEN Len(s) * (Len(s) - 1) ELSE 1

\* line 112: statistics.stdev, 0 for a single sample
StdSapma(s) == IF Len(s) > 1 THEN Num(0, 1, 1, 1) ELSE Rat(0, 1)

\* (variant: the one-sigma band of the hourly classes)
UstEsik_BirSigma(ort, std) == Add(ort, std)

\* line 126
UstEsik(ort, std) == Add(ort, Scale(std, 3, 2))

\* line 127: max(0, ortalama_hiz - 1.5 * std_sapma)
AltEsik(ort, std, vn, vd) ==
    LET r == Sub(ort, Scale(std, 3, 2))
    IN  IF Sign(r, vn, vd) > 0 THEN r ELSE Rat(0, 1)

\* (variant: the guard tests ortalama_hiz != 0)
VolatiliteOrani_NonZero(ort, std, vn, vd) ==
    IF Sign(ort, vn, vd) # 0 THEN Scale(DivRat(std, Abs(ort.an), ort.ad), 100 * Sgn(ort.an), 1)
    ELSE Rat(0, 1)

\* line 130
VolatiliteOrani(ort, std, vn, vd) ==
    IF Sign(ort, vn, vd) > 0 THEN Scale(DivRat(std, ort.an, ort.ad), 100, 1)
    ELSE Rat(0, 1)

\* (variant: a speed equal to a threshold already leaves the normal band)
GenelDurum_Esit(vol, maxh, minh, ust, alt, vn, vd) ==
    IF Gt(vol, Rat(30, 1), vn, vd) THEN "ISTIKRARSIZ"
    ELSE IF ~Lt(Rat(maxh, 1), ust, vn, vd) THEN "YUKSEK_RUZGAR"
    ELSE IF ~Gt(Rat(minh, 1), alt, vn, vd) THEN "DUSUK_RUZGAR"
    ELSE "NORMAL"

\* (variant: the threshold tests come before the volatility test)
GenelDurum_EsikOnce(vol, maxh, minh, ust, alt, vn, vd) ==
    IF Gt(Rat(maxh, 1), ust, vn, vd) THEN "YUKSEK_RUZGAR"
    ELSE IF Lt(Rat(minh, 1), alt, vn, vd) THEN "DUSUK_RUZGAR"
    ELSE IF Gt(vol, Rat(30, 1), vn, vd) THEN "ISTIKRARSIZ"
    ELSE "NORMAL"

\* lines 132-139
GenelDurum(vol, maxh, minh, ust, alt, vn, vd) ==
    IF Gt(vol, Rat(30, 1), vn, vd) THEN "ISTIKRARSIZ"
    ELSE IF Gt(Rat(maxh, 1), ust, vn, vd) THEN "YUKSEK_RUZGAR"
    ELSE IF Lt(Rat(minh, 1), alt, vn, vd) THEN "DUSUK_RUZGAR"
    ELSE "NORMAL"

Istatistikler(s) ==
    LET ort == Ortalama(s)
        std == StdSapma(s)
        vn  == VaryansPay(s)
        vd  == VaryansPayda(s)
        ust == UstEsik(ort, std)
        alt == AltEsik(ort, std, vn, vd)
        vol == VolatiliteOrani(ort, std, vn, vd)
    IN  [bound |-> TRUE, n |-> Len(s), vn |-> vn, vd |-> vd,
         ortalama_hiz |-> ort, medyan_hiz |-> Medyan(s),
         min_hiz |-> MinSeq(s), max_hiz |-> MaxSeq(s),
         std_sapma |-> std, ust_esik |-> ust, alt_esik |-> alt,
         volatilite_orani |-> vol,
         genel_durum |-> GenelDurum(vol, MaxSeq(s), MinSeq(s), ust, alt, vn, vd)]

----------------------------------------------------------------------------
(* Lines 142-197: the anomaly scan.  st is the record of statistics, k the *)
(* 1-based position of the sample (Python index i = k - 1).                *)

\* (variant: the thresholds are the mean itself)
AnomaliDurumu_Ortalama(hiz, st) ==
    IF Gt(Rat(hiz, 1), st.ortalama_hiz, st.vn, st.vd) THEN "ANOMALI_YUKSEK"
    ELSE IF Lt(Rat(hiz, 1), st.ortalama_hiz, st.vn, st.vd) THEN "ANOMALI_DUSUK"
    ELSE "YOK"

\* (variant: a speed equal to the upper threshold counts as high)
AnomaliDurumu_Esit(hiz, st) ==
    IF ~Lt(Rat(hiz, 1), st.ust_esik, st.vn, st.vd) THEN "ANOMALI_YUKSEK"
    ELSE IF /\ Lt(Rat(hiz, 1), st.alt_esik, st.vn, st.vd)
            /\ Sign(st.alt_esik, st.vn, st.vd) > 0 THEN "ANOMALI_DUSUK"
    ELSE "YOK"

\* (variant: the low test without alt_esik > 0)
AnomaliDurumu_AltSifir(hiz, st) ==
    IF Gt(Rat(hiz, 1), st.ust_esik, st.vn, st.vd) THEN "ANOMALI_YUKSEK"
    ELSE IF Lt(Rat(hiz, 1), st.alt_esik, st.vn, st.vd) THEN "ANOMALI_DUSUK"
    ELSE "YOK"

\* (variant: the elif branch of line 174 is never taken)
AnomaliDurumu_SadeceYuksek(hiz, st) ==
    IF Gt(Rat(hiz, 1), st.ust_esik, st.vn, st.vd) THEN "ANOMALI_YUKSEK"
    ELSE "YOK"

\* lines 146 and 174: the class of one speed
AnomaliDurumu(hiz, st) ==
    IF Gt(Rat(hiz, 1), st.ust_esik, st.vn, st.vd) THEN "ANOMALI_YUKSEK"
    ELSE IF /\ Lt(Rat(hiz, 1), st.alt_esik, st.vn, st.vd)
            /\ Sign(st.alt_esik, st.vn, st.vd) > 0 THEN "ANOMALI_DUSUK"
    ELSE "YOK"

\* lines 148 and 176: the division by ortalama_hiz raises when it is zero
SapmaTanimsiz(st) == st.ortalama_hiz.an = 0

\* round(fark / ortalama_hiz * 100, 2) in hundredths, fark = fn / ortalama_hiz.ad
SapmaYuzdesi(fn, st) ==
    LET m == st.ortalama_hiz.an
    IN  IF m > 0 THEN Round2(100 * fn, m) ELSE Round2(0 - 100 * fn, 0 - m)

\* mean(sicakliklar) -/+ 2 against one temperature
SicaklikDusuk(t, temps) == t * Len(temps) < SumSeq(temps) - 2 * Len(temps)

SicaklikYuksek(t, temps) == t * Len(temps) > SumSeq(temps) + 2 * Len(temps)

\* (variant: the three tests form one if/elif chain)
NedenYuksek_IlkNeden(k, hizlar, temps, st) ==
    LET ort == st.ortalama_hiz
    IN  IF k - 1 > 0 /\ hizlar[k - 1] * ort.ad < ort.an
        THEN << "Ani ruzgar artisi - Atmosferik degisim" >>
        ELSE IF SicaklikDusuk(temps[k], temps)
        THEN << "Dusuk sicaklik korelasyonu" >>
        ELSE IF 10 * hizlar[k] >= 9 * st.max_hiz
        THEN << "Donem maksimum seviyesine yakin" >>
        ELSE << "Standart meteorolojik varyasyon" >>

\* lines 150-161
NedenYuksek(k, hizlar, temps, st) ==
    LET ort == st.ortalama_hiz
        n1 == IF k - 1 > 0 /\ hizlar[k - 1] * ort.ad < ort.an
              THEN << "Ani ruzgar artisi - Atmosferik degisim" >> ELSE << >>
        n2 == IF SicaklikDusuk(temps[k], temps)
              THEN << "Dusuk sicaklik korelasyonu" >> ELSE << >>
        n3 == IF 10 * hizlar[k] >= 9 * st.max_hiz
              THEN << "Donem maksimum seviyesine yakin" >> ELSE << >>
        neden == n1 \o n2 \o n3
    IN  IF neden = << >> THEN << "Standart meteorolojik varyasyon" >> ELSE neden

\* lines 178-186
NedenDusuk(k, hizlar, temps, st) ==
    LET ort == st.ortalama_hiz
        n1 == IF k - 1 > 0 /\ hizlar[k - 1] * ort.ad > ort.an
              THEN << "Ani sakinlesme" >> ELSE << >>
        n2 == IF SicaklikYuksek(temps[k], temps)
              THEN << "Yuksek sicaklik korelasyonu" >> ELSE << >>
        neden == n1 \o n2
    IN  IF neden = << >> THEN << "Ruzgar sakinligi" >> ELSE neden

\* lines 163-172 and 188-197: the record appended for sample k
AnomaliKaydi(k, durum, hizlar, yonler, temps, zamanlar, st, kodlar) ==
    LET ort == st.ortalama_hiz
        fn  == IF durum = "ANOMALI_YUKSEK" THEN hizlar[k] * ort.ad - ort.an
               ELSE ort.an - hizlar[k] * ort.ad
    IN  [zaman |-> zamanlar[k],
         hiz |-> hizlar[k],
         yon |-> yonler[k],
         durum_kodu |-> kodlar[durum].kod,
         durum |-> durum,
         sapma_yuzdesi |-> SapmaYuzdesi(fn, st),
         ortalamadan_fark |-> Round2(fn, ort.ad),
         neden_analizi |-> IF durum = "ANOMALI_YUKSEK"
                           THEN NedenYuksek(k, hizlar, temps, st)
                           ELSE NedenDusuk(k, hizlar, temps, st)]

\* the loop of line 143 from sample k on; hata names the exception that ends it
RECURSIVE AnomaliTara(_, _, _, _, _, _, _, _)
AnomaliTara(k, acc, hizlar, yonler, temps, zamanlar, st, kodlar) ==
    IF k > Len(hizlar) THEN [hata |-> "", liste |-> acc]
    ELSE LET durum == AnomaliDurumu(hizlar[k], st)
         IN  IF durum = "YOK"
             THEN AnomaliTara(k + 1, acc, hizlar, yonler, temps, zamanlar, st, kodlar)
             ELSE IF SapmaTanimsiz(st)
             THEN [hata |-> "ZeroDivisionError", liste |-> acc]
             ELSE AnomaliTara(k + 1,
                      Append(acc, AnomaliKaydi(k, durum, hizlar, yonler, temps,
                                               zamanlar, st, kodlar)),
                      hizlar, yonler, temps, zamanlar, st, kodlar)

----------------------------------------------------------------------------
(* Lines 223-267: the trend scan.  j is the Python index i.                *)

\* (variant: any increase starts a rising run, any decrease a falling one)
TrendTuru_Marjsiz(s, j) ==
    IF s[j + 2] > s[j + 1] THEN "ARTIS"
    ELSE IF s[j + 2] < s[j + 1] THEN "AZALIS"
    ELSE "SABIT"

\* lines 229, 234, 239: the trend that starts at index j (j < len - 1)
TrendTuru(s, j) ==
    IF s[j + 2] > s[j + 1] + 1 THEN "ARTIS"
    ELSE IF s[j + 2] < s[j + 1] - 1 THEN "AZALIS"
    ELSE "SABIT"

\* lines 232, 237, 242: the continuation test between speeds a and b
\* (variant: a stable run continues only over equal speeds)
TrendDevam_SabitEsit(trend, a, b) ==
    IF trend = "ARTIS" THEN b >= a
    ELSE IF trend = "AZALIS" THEN b <= a
    ELSE Abs(b - a) < 1

\* (variant: a rising run also continues over a drop of 1)
TrendDevam_Gevsek(trend, a, b) ==
    IF trend = "ARTIS" THEN b >= a - 1
    ELSE IF trend = "AZALIS" THEN b <= a
    ELSE Abs(b - a) <= 1

TrendDevam(trend, a, b) ==
    IF trend = "ARTIS" THEN b >= a
    ELSE IF trend = "AZALIS" THEN b <= a
    ELSE Abs(b - a) <= 1

\* (variant: the inner loops stop one sample before the end of the list)
RECURSIVE TrendBitis_Erken(_, _, _)
TrendBitis_Erken(s, j, trend) ==
    IF j < Len(s) - 2 /\ TrendDevam(trend, s[j + 1], s[j + 2])
    THEN TrendBitis_Erken(s, j + 1, trend)
    ELSE j

\* the inner while loops: the index at which the run that is at j ends
RECURSIVE TrendBitis(_, _, _)
TrendBitis(s, j, trend) ==
    IF j < Len(s) - 1 /\ TrendDevam(trend, s[j + 1], s[j + 2])
    THEN TrendBitis(s, j + 1, trend)
    ELSE j

TrendDurumKodu(trend) ==
    IF trend = "ARTIS" THEN "TREND_ARTIS"
    ELSE IF trend = "AZALIS" THEN "TREND_AZALIS"
    ELSE "TREND_SABIT"

\* (variant: the scan resumes at the last index of the run)
TrendSonraki_Ayni(bitis) == bitis

\* (variant: the scan skips one index after a run)
TrendSonraki_Atla(bitis) == bitis + 2

\* line 267: the index at which the scan resumes after a run that ended at bitis
TrendSonraki(bitis) == bitis + 1

\* (variant: the change is taken from the end to the start)
Periyot_TersDegisim(s, zamanlar, baslangic, bitis, trend, kodlar) ==
    [baslangic_saat |-> zamanlar[baslangic + 1],
     bitis_saat |-> zamanlar[bitis + 1],
     baslangic_hiz |-> s[baslangic + 1],
     bitis_hiz |-> s[bitis + 1],
     degisim |-> s[baslangic + 1] - s[bitis + 1],
     sure_saat |-> bitis - baslangic,
     ortalama_hiz |-> Round2(SumSeq(SubSeq(s, baslangic + 1, bitis + 1)),
                             bitis - baslangic + 1),
     durum_kodu |-> kodlar[TrendDurumKodu(trend)].kod,
     durum |-> TrendDurumKodu(trend)]

\* lines 248-258
Periyot(s, zamanlar, baslangic, bitis, trend, kodlar) ==
    [baslangic_saat |-> zamanlar[baslangic + 1],
     bitis_saat |-> zamanlar[bitis + 1],
     baslangic_hiz |-> s[baslangic + 1],
     bitis_hiz |-> s[bitis + 1],
     degisim |-> s[bitis + 1] - s[baslangic + 1],
     sure_saat |-> bitis - baslangic,
     ortalama_hiz |-> Round2(SumSeq(SubSeq(s, baslangic + 1, bitis + 1)),
                             bitis - baslangic + 1),
     durum_kodu |-> kodlar[TrendDurumKodu(trend)].kod,
     durum |-> TrendDurumKodu(trend)]

\* (variant: line 223 is missing, the scan starts where i was left)
TrendIlkIndeks_Eski(eski) == eski

\* line 223: i = 0
TrendIlkIndeks(eski) == 0

\* lines 225-267: one iteration of the outer while loop at index j
TrendAdimSonucu(s, zamanlar, j, artis, azalis, sabit, kodlar) ==
    LET baslangic == j
        trend == TrendTuru(s, j)
        bitis == TrendBitis(s, j, trend)
        periyot == Periyot(s, zamanlar, baslangic, bitis, trend, kodlar)
        kayit == bitis > baslangic
    IN  [artis  |-> IF kayit /\ trend = "ARTIS" THEN Append(artis, periyot) ELSE artis,
         azalis |-> IF kayit /\ trend = "AZALIS" THEN Append(azalis, periyot) ELSE azalis,
         sabit  |-> IF kayit /\ trend = "SABIT" THEN Append(sabit, periyot) ELSE sabit,
         i      |-> TrendSonraki(bitis)]

\* lines 224-267: the outer while loop from index j on
RECURSIVE TrendTara(_, _, _, _, _, _, _)
TrendTara(s, zamanlar, j, artis, azalis, sabit, kodlar) ==
    IF j < Len(s) - 1
    THEN LET r == TrendAdimSonucu(s, zamanlar, j, artis, azalis, sabit, kodlar)
         IN  TrendTara(s, zamanlar, r.i, r.artis, r.azalis, r.sabit, kodlar)
    ELSE [artis |-> artis, azalis |-> azalis, sabit |-> sabit]

----------------------------------------------------------------------------
(* Lines 287-299: the direction table.  The insertion-ordered dictionary   *)
(* yon_frekans is the sequence of its items in insertion order.            *)

\* line 289 for one direction
YonSay(frek, yon) ==
    IF \E j \in 1..Len(frek) : frek[j].yon = yon
    THEN [j \in 1..Len(frek) |->
            IF frek[j].yon = yon
            THEN [yon |-> yon, frekans |-> frek[j].frekans + 1]
            ELSE frek[j]]
    ELSE Append(frek, [yon |-> yon, frekans |-> 1])

\* lines 287-289
RECURSIVE YonFrekans(_, _)
YonFrekans(yonler, frek) ==
    IF yonler = << >> THEN frek
    ELSE YonFrekans(Tail(yonler), YonSay(frek, Head(yonler)))

\* (variant: a later item with an equal count replaces the best one)
RECURSIVE IlkEnBuyuk_Son(_, _)
IlkEnBuyuk_Son(frek, best) ==
    IF frek = << >> THEN best
    ELSE IlkEnBuyuk_Son(Tail(frek),
                        IF Head(frek).frekans >= best.frekans THEN Head(frek) ELSE best)

\* line 291: max(yon_frekans, key=yon_frekans.get) keeps the first item whose
\* count no later item exceeds strictly
RECURSIVE IlkEnBuyuk(_, _)
IlkEnBuyuk(frek, best) ==
    IF frek = << >> THEN best
    ELSE IlkEnBuyuk(Tail(frek),
                    IF Head(frek).frekans > best.frekans THEN Head(frek) ELSE best)

HakimYon(frek) == IlkEnBuyuk(Tail(frek), Head(frek)).yon

\* (variant: an unstable sort, an item goes before the items of equal count)
RECURSIVE SiraliEkle_Once(_, _)
SiraliEkle_Once(sirali, oge) ==
    IF sirali = << >> THEN << oge >>
    ELSE IF Head(sirali).frekans > oge.frekans
         THEN << Head(sirali) >> \o SiraliEkle_Once(Tail(sirali), oge)
         ELSE << oge >> \o sirali

\* sorted(..., key=count, reverse=True) is stable: an item goes behind every
\* item whose count is not smaller
RECURSIVE SiraliEkle(_, _)
SiraliEkle(sirali, oge) ==
    IF sirali = << >> THEN << oge >>
    ELSE IF Head(sirali).frekans >= oge.frekans
         THEN << Head(sirali) >> \o SiraliEkle(Tail(sirali), oge)
         ELSE << oge >> \o sirali

RECURSIVE AzalanSirala(_, _)
AzalanSirala(frek, sirali) ==
    IF frek = << >> THEN sirali
    ELSE AzalanSirala(Tail(frek), SiraliEkle(sirali, Head(frek)))

\* (variant: the percentage is cut after two decimals instead of rounded)
Yuzde_Kes(frekans, toplam) == (frekans * 10000) \div toplam

\* line 296: round(frekans / len * 100, 2) in hundredths
Yuzde(frekans, toplam) == Round2(frekans * 100, toplam)

\* lines 292-299
YonDagilim(frek, toplam) ==
    LET sirali == AzalanSirala(frek, << >>)
    IN  [j \in 1..Len(sirali) |->
            [yon |-> sirali[j].yon,
             frekans |-> sirali[j].frekans,
             yuzde |-> Yuzde(sirali[j].frekans, toplam)]]

----------------------------------------------------------------------------
(* Lines 317-367: the hourly buckets.  current_hour = None is -1.          *)

\* (variant: the 1.5-sigma band of the anomaly thresholds)
SaatDurumu_BirBucuk(toplam, adet, st) ==
    LET avg == Rat(toplam, adet)
    IN  IF Gt(avg, Add(st.ortalama_hiz, Scale(st.std_sapma, 3, 2)), st.vn, st.vd)
        THEN "YUKSEK_RUZGAR"
        ELSE IF Lt(avg, Sub(st.ortalama_hiz, Scale(st.std_sapma, 3, 2)), st.vn, st.vd)
        THEN "DUSUK_RUZGAR"
        ELSE "NORMAL"

\* (variant: a two-sigma band)
SaatDurumu_IkiSigma(toplam, adet, st) ==
    LET avg == Rat(toplam, adet)
    IN  IF Gt(avg, Add(st.ortalama_hiz, Scale(st.std_sapma, 2, 1)), st.vn, st.vd)
        THEN "YUKSEK_RUZGAR"
        ELSE IF Lt(avg, Sub(st.ortalama_hiz, Scale(st.std_sapma, 2, 1)), st.vn, st.vd)
        THEN "DUSUK_RUZGAR"
        ELSE "NORMAL"

\* lines 333-338 and 354-359: one-sigma class of a bucket mean toplam/adet
SaatDurumu(toplam, adet, st) ==
    LET avg == Rat(toplam, adet)
    IN  IF Gt(avg, Add(st.ortalama_hiz, st.std_sapma), st.vn, st.vd)
        THEN "YUKSEK_RUZGAR"
        ELSE IF Lt(avg, Sub(st.ortalama_hiz, st.std_sapma), st.vn, st.vd)
        THEN "DUSUK_RUZGAR"
        ELSE "NORMAL"

\* lines 331-346: the bucket closed inside the loop
SaatKovasi(saat, hizlar, st, kodlar) ==
    [saat |-> saat,
     ortalama_hiz |-> Round2(SumSeq(hizlar), Len(hizlar)),
     durum |-> SaatDurumu(SumSeq(hizlar), Len(hizlar), st),
     durum_kodu |-> kodlar[SaatDurumu(SumSeq(hizlar), Len(hizlar), st)].kod,
     veri_sayisi |-> Len(hizlar)]

\* lines 352-367: the bucket closed after the loop
SonSaatKovasi(saat, hizlar, st, kodlar) ==
    [saat |-> saat,
     ortalama_hiz |-> Round2(SumSeq(hizlar), Len(hizlar)),
     durum |-> SaatDurumu(SumSeq(hizlar), Len(hizlar), st),
     durum_kodu |-> kodlar[SaatDurumu(SumSeq(hizlar), Len(hizlar), st)].kod,
     veri_sayisi |-> Len(hizlar)]

\* (variant: the bucket that is open when the loop ends is not closed)
SonKovaEkle_Yok(out, cur, hs, st, kodlar) == out

\* lines 351-367: the open bucket is closed after the loop
SonKovaEkle(out, cur, hs, st, kodlar) ==
    IF hs # << >> THEN Append(out, SonSaatKovasi(cur, hs, st, kodlar)) ELSE out

\* (variant: line 348 is missing, the open bucket keeps the first hour)
RECURSIVE SaatTara_SaatEski(_, _, _, _, _, _, _)
SaatTara_SaatEski(d, k, cur, hs, out, st, kodlar) ==
    IF k > Len(d) THEN [current_hour |-> cur, hour_speeds |-> hs, saat_analizi |-> out]
    ELSE LET saat == d[k].zaman.saat
             hiz  == d[k].ruzgar.hiz
         IN  IF cur = -1 THEN SaatTara_SaatEski(d, k + 1, saat, << hiz >>, out, st, kodlar)
             ELSE IF saat = cur
             THEN SaatTara_SaatEski(d, k + 1, cur, Append(hs, hiz), out, st, kodlar)
             ELSE SaatTara_SaatEski(d, k + 1, cur, << hiz >>,
                           Append(out, SaatKovasi(cur, hs, st, kodlar)), st, kodlar)

\* lines 321-349: the loop over data from entry k on
RECURSIVE SaatTara(_, _, _, _, _, _, _)
SaatTara(d, k, cur, hs, out, st, kodlar) ==
    IF k > Len(d) THEN [current_hour |-> cur, hour_speeds |-> hs, saat_analizi |-> out]
    ELSE LET saat == d[k].zaman.saat
             hiz  == d[k].ruzgar.hiz
         IN  IF cur = -1 THEN SaatTara(d, k + 1, saat, << hiz >>, out, st, kodlar)
             ELSE IF saat = cur
             THEN SaatTara(d, k + 1, cur, Append(hs, hiz), out, st, kodlar)
             ELSE SaatTara(d, k + 1, saat, << hiz >>,
                           Append(out, SaatKovasi(cur, hs, st, kodlar)), st, kodlar)

----------------------------------------------------------------------------
(* Lines 394-433: the report.  The statistics that involve the standard    *)
(* deviation are carried exactly, the rational ones rounded to hundredths  *)
(* as round(x, 2) does.                                                    *)

RaporKaydi(zaman, d, st, zamanlar, anomali, artis, azalis, sabit, hakim, dagilim, saatlik, kodlar) ==
    [rapor_zamani |-> zaman,
     durum |-> "BASARILI",
     genel_durum |-> [durum |-> st.genel_durum,
                      durum_kodu |-> kodlar[st.genel_durum].kod],
     analiz_kapsami |-> [toplam_veri_noktasi |-> Len(d),
                         baslangic_zamani |-> zamanlar[1],
                         bitis_zamani |-> zamanlar[Len(zamanlar)]],
     istatistiksel_ozet |->
        [ortalama_ruzgar_hizi_kmh |-> Round2(st.ortalama_hiz.an, st.ortalama_hiz.ad),
         medyan_ruzgar_hizi_kmh |-> Round2(st.medyan_hiz.an, st.medyan_hiz.ad),
         minimum_ruzgar_hizi_kmh |-> st.min_hiz,
         maksimum_ruzgar_hizi_kmh |-> st.max_hiz,
         standart_sapma |-> st.std_sapma,
         volatilite_orani_yuzde |-> st.volatilite_orani,
         ust_anomali_esigi_kmh |-> st.ust_esik,
         alt_anomali_esigi_kmh |-> st.alt_esik],
     yon_analizi |-> [hakim_ruzgar_yonu |-> hakim, yon_dagilimi |-> dagilim],
     anomali_raporu |->
        [toplam_anomali_sayisi |-> Len(anomali),
         anomali_orani_yuzde |-> Round2(Len(anomali) * 100, Len(d)),
         tespit_edilen_anomaliler |-> anomali],
     trend_analizi |-> [artis_periyotlari |-> artis,
                        azalis_periyotlari |-> azalis,
                        sabit_periyotlar |-> sabit],
     saatlik_analiz |-> saatlik,
     durum_kodlari_referans |-> kodlar]

----------------------------------------------------------------------------
(* The state machine *)

Init ==
    /\ \/ data \in Inputs /\ data_none = FALSE
       \/ data = << >> /\ data_none = TRUE
    /\ pc = "start"
    /\ hata_tipi = ""
    /\ DURUM_KODLARI = DurumKodlariTablosu
    /\ ruzgar_hizlari = << >>
    /\ ruzgar_yonleri = << >>
    /\ sicakliklar = << >>
    /\ zaman_damgalari = << >>
    /\ istat = [bound |-> FALSE]
    /\ anomaliler = << >>
    /\ i = 0
    /\ hiz_artis_periyotlari = << >>
    /\ hiz_azalis_periyotlari = << >>
    /\ sabit_periyotlar = << >>
    /\ yon_frekans = << >>
    /\ hakim_yon = 0
    /\ yon_dagilim = << >>
    /\ saat_analizi = << >>
    /\ current_hour = -1
    /\ hour_speeds = << >>
    /\ rapor = [durum |-> "YOK"]
    /\ cagri = 1
    /\ onceki_data = << >>
    /\ onceki_rapor = [durum |-> "YOK"]
    /\ bilesen = BilesenBasi

\* lines 79-84
BosVeri ==
    /\ pc = "start"
    /\ UNCHANGED cagiran
    /\ UNCHANGED bilesen
    /\ VeriYok(data, data_none)
    /\ rapor' = HataRaporu
    /\ pc' = "done"
    /\ UNCHANGED << data, data_none, hata_tipi, DURUM_KODLARI,
                    ruzgar_hizlari, ruzgar_yonleri, sicakliklar, zaman_damgalari,
                    istat, anomaliler, i, hiz_artis_periyotlari,
                    hiz_azalis_periyotlari, sabit_periyotlar,
                    yon_frekans, hakim_yon, yon_dagilim,
                    saat_analizi, current_hour, hour_speeds >>

\* lines 96-105
VeriToplama ==
    /\ pc = "start"
    /\ UNCHANGED cagiran
    /\ UNCHANGED bilesen
    /\ ~VeriYok(data, data_none)
    /\ ruzgar_hizlari' = [k \in 1..Len(data) |-> data[k].ruzgar.hiz]
    /\ ruzgar_yonleri' = [k \in 1..Len(data) |-> data[k].ruzgar.yon]
    /\ sicakliklar' = [k \in 1..Len(data) |-> data[k].sicaklik]
    /\ zaman_damgalari' = [k \in 1..Len(data) |-> data[k].zaman.tam]
    /\ pc' = "istatistik"
    /\ UNCHANGED << data, data_none, hata_tipi, DURUM_KODLARI,
                    istat, anomaliler, i, hiz_artis_periyotlari,
                    hiz_azalis_periyotlari, sabit_periyotlar,
                    yon_frekans, hakim_yon, yon_dagilim,
                    saat_analizi, current_hour, hour_speeds, rapor >>

\* lines 108-139; statistics.mean raises StatisticsError on an empty list
Istatistik ==
    /\ pc = "istatistik"
    /\ UNCHANGED cagiran
    /\ UNCHANGED bilesen
    /\ IF Len(ruzgar_hizlari) = 0
       THEN /\ pc' = "raised"
            /\ hata_tipi' = "StatisticsError"
            /\ UNCHANGED istat
       ELSE /\ istat' = Istatistikler(ruzgar_hizlari)
            /\ pc' = "anomali"
            /\ UNCHANGED hata_tipi
    /\ UNCHANGED << data, data_none, DURUM_KODLARI,
                    ruzgar_hizlari, ruzgar_yonleri, sicakliklar, zaman_damgalari,
                    anomaliler, i, hiz_artis_periyotlari,
                    hiz_azalis_periyotlari, sabit_periyotlar,
                    yon_frekans, hakim_yon, yon_dagilim,
                    saat_analizi, current_hour, hour_speeds, rapor >>

\* lines 142-197, then 219-223
AnomaliAnalizi ==
    /\ pc = "anomali"
    /\ UNCHANGED cagiran
    /\ UNCHANGED bilesen
    /\ LET r == AnomaliTara(1, << >>, ruzgar_hizlari, ruzgar_yonleri, sicakliklar,
                            zaman_damgalari, istat, DURUM_KODLARI)
       IN  /\ anomaliler' = r.liste
           /\ hata_tipi' = r.hata
           /\ pc' = IF r.hata = "" THEN "trend" ELSE "raised"
    /\ i' = TrendIlkIndeks(i)
    /\ UNCHANGED << data, data_none, DURUM_KODLARI,
                    ruzgar_hizlari, ruzgar_yonleri, sicakliklar, zaman_damgalari,
                    istat, hiz_artis_periyotlari,
                    hiz_azalis_periyotlari, sabit_periyotlar,
                    yon_frekans, hakim_yon, yon_dagilim,
                    saat_analizi, current_hour, hour_speeds, rapor >>

\* lines 224-267: one iteration of the outer while loop
TrendAdim ==
    /\ pc = "trend"
    /\ UNCHANGED cagiran
    /\ UNCHANGED bilesen
    /\ i < Len(ruzgar_hizlari) - 1
    /\ LET r == TrendAdimSonucu(ruzgar_hizlari, zaman_damgalari, i,
                                hiz_artis_periyotlari, hiz_azalis_periyotlari,
                                sabit_periyotlar, DURUM_KODLARI)
       IN  /\ hiz_artis_periyotlari' = r.artis
           /\ hiz_azalis_periyotlari' = r.azalis
           /\ sabit_periyotlar' = r.sabit
           /\ i' = r.i
    /\ UNCHANGED << data, data_none, pc, hata_tipi, DURUM_KODLARI,
                    ruzgar_hizlari, ruzgar_yonleri, sicakliklar, zaman_damgalari,
                    istat, anomaliler, yon_frekans, hakim_yon, yon_dagilim,
                    saat_analizi, current_hour, hour_speeds, rapor >>

\* line 224 false, then lines 287-299
YonAnalizi ==
    /\ pc = "trend"
    /\ UNCHANGED cagiran
    /\ UNCHANGED bilesen
    /\ ~(i < Len(ruzgar_hizlari) - 1)
    /\ LET frek == YonFrekans(ruzgar_yonleri, << >>)
       IN  /\ yon_frekans' = frek
           /\ hakim_yon' = HakimYon(frek)
           /\ yon_dagilim' = YonDagilim(frek, Len(ruzgar_yonleri))
    /\ pc' = "saatlik"
    /\ UNCHANGED << data, data_none, hata_tipi, DURUM_KODLARI,
                    ruzgar_hizlari, ruzgar_yonleri, sicakliklar, zaman_damgalari,
                    istat, anomaliler, i, hiz_artis_periyotlari,
                    hiz_azalis_periyotlari, sabit_periyotlar,
                    saat_analizi, current_hour, hour_speeds, rapor >>

\* lines 317-349
SaatlikTara ==
    /\ pc = "saatlik"
    /\ UNCHANGED cagiran
    /\ UNCHANGED bilesen
    /\ LET r == SaatTara(data, 1, -1, << >>, << >>, istat, DURUM_KODLARI)
       IN  /\ current_hour' = r.current_hour
           /\ hour_speeds' = r.hour_speeds
           /\ saat_analizi' = r.saat_analizi
    /\ pc' = "saatlik_son"
    /\ UNCHANGED << data, data_none, hata_tipi, DURUM_KODLARI,
                    ruzgar_hizlari, ruzgar_yonleri, sicakliklar, zaman_damgalari,
                    istat, anomaliler, i, hiz_artis_periyotlari,
                    hiz_azalis_periyotlari, sabit_periyotlar,
                    yon_frekans, hakim_yon, yon_dagilim, rapor >>

\* lines 351-367
SaatlikSon ==
    /\ pc = "saatlik_son"
    /\ UNCHANGED cagiran
    /\ UNCHANGED bilesen
    /\ saat_analizi' = SonKovaEkle(saat_analizi, current_hour, hour_speeds,
                                   istat, DURUM_KODLARI)
    /\ pc' = "rapor"
    /\ UNCHANGED << data, data_none, hata_tipi, DURUM_KODLARI,
                    ruzgar_hizlari, ruzgar_yonleri, sicakliklar, zaman_damgalari,
                    istat, anomaliler, i, hiz_artis_periyotlari,
                    hiz_azalis_periyotlari, sabit_periyotlar,
                    yon_frekans, hakim_yon, yon_dagilim,
                    current_hour, hour_speeds, rapor >>

\* lines 394-433 and 455; datetime.now() is whatever the wall clock shows
RaporOlustur ==
    /\ pc = "rapor"
    /\ UNCHANGED cagiran
    /\ UNCHANGED bilesen
    /\ \E zaman \in Clock :
         rapor' = RaporKaydi(zaman, data, istat, zaman_damgalari, anomaliler,
                             hiz_artis_periyotlari, hiz_azalis_periyotlari,
                             sabit_periyotlar, hakim_yon, yon_dagilim,
                             saat_analizi, DURUM_KODLARI)
    /\ pc' = "done"
    /\ UNCHANGED << data, data_none, hata_tipi, DURUM_KODLARI,
                    ruzgar_hizlari, ruzgar_yonleri, sicakliklar, zaman_damgalari,
                    istat, anomaliler, i, hiz_artis_periyotlari,
                    hiz_azalis_periyotlari, sabit_periyotlar,
                    yon_frekans, hakim_yon, yon_dagilim,
                    saat_analizi, current_hour, hour_speeds >>

Next ==
    \/ BosVeri
    \/ VeriToplama
    \/ Istatistik
    \/ AnomaliAnalizi
    \/ TrendAdim
    \/ YonAnalizi
    \/ SaatlikTara
    \/ SaatlikSon
    \/ RaporOlustur

Spec == Init /\ [][Next]_vars

----------------------------------------------------------------------------
(* A sequence of calls by one caller *)

\* line 65: the caller calls windanalysis again; the body starts with fresh
\* locals, the module-level table is the one the module holds
YeniCagri ==
    /\ pc = "done"
    /\ cagri < MaxCalls
    /\ cagri' = cagri + 1
    /\ onceki_data' = data
    /\ onceki_rapor' = rapor
    /\ data' \in CallInputs
    /\ data_none' = FALSE
    /\ pc' = "start"
    /\ hata_tipi' = ""
    /\ ruzgar_hizlari' = << >>
    /\ ruzgar_yonleri' = << >>
    /\ sicakliklar' = << >>
    /\ zaman_damgalari' = << >>
    /\ istat' = [bound |-> FALSE]
    /\ anomaliler' = << >>
    /\ i' = 0
    /\ hiz_artis_periyotlari' = << >>
    /\ hiz_azalis_periyotlari' = << >>
    /\ sabit_periyotlar' = << >>
    /\ yon_frekans' = << >>
    /\ hakim_yon' = 0
    /\ yon_dagilim' = << >>
    /\ saat_analizi' = << >>
    /\ current_hour' = -1
    /\ hour_speeds' = << >>
    /\ rapor' = [durum |-> "YOK"]
    /\ UNCHANGED << DURUM_KODLARI, bilesen >>

\* line 432 puts the module-level dictionary itself into the report: a caller
\* that writes a code into durum_kodlari_referans of a report writes into
\* DURUM_KODLARI and into the same field of every other report
CagiranDegistirir ==
    /\ pc = "done"
    /\ rapor.durum = "BASARILI"
    /\ \E kod \in CagiranKodlari :
         LET ad == rapor.genel_durum.durum
             yeni == [DURUM_KODLARI EXCEPT ![ad].kod = kod]
         IN  /\ DURUM_KODLARI[ad].kod # kod
             /\ DURUM_KODLARI' = yeni
             /\ rapor' = [rapor EXCEPT !.durum_kodlari_referans = yeni]
             /\ onceki_rapor' =
                  IF onceki_rapor.durum = "BASARILI"
                  THEN [onceki_rapor EXCEPT !.durum_kodlari_referans = yeni]
                  ELSE onceki_rapor
    /\ UNCHANGED << data, data_none, pc, hata_tipi,
                    ruzgar_hizlari, ruzgar_yonleri, sicakliklar, zaman_damgalari,
                    istat, anomaliler, i, hiz_artis_periyotlari,
                    hiz_azalis_periyotlari, sabit_periyotlar,
                    yon_frekans, hakim_yon, yon_dagilim,
                    saat_analizi, current_hour, hour_speeds,
                    cagri, onceki_data, bilesen >>

InitCalls == Init /\ data \in CallInputs

NextCalls ==
    \/ Next
    \/ YeniCagri
    \/ CagiranDegistirir

CallSpec == InitCalls /\ [][NextCalls]_vars

----------------------------------------------------------------------------
(* The four analyses after the statistics (lines 142-197, 219-267, 287-299 *)
(* and 317-367) taken in any order, and with the steps of one running      *)
(* between the steps of another. They work on the locals of one function:  *)
(* the anomaly loop and the trend scan both use the name i.                *)

Bilesenler == {"a", "t", "d", "h"}

\* analysis x moves on; it is interleaved when another one is under way
Ilerle(b, x, yeni) ==
    [b EXCEPT ![x] = yeni,
              !.sira = IF yeni = "bitti" THEN Append(@, x) ELSE @,
              !.karisik = @ \/ \E y \in Bilesenler \ {x} : b[y] = "suruyor"]

\* lines 142-197; enumerate leaves the last index in i
BilesenAnomali ==
    /\ pc = "anomali"
    /\ bilesen.a = "hazir"
    /\ UNCHANGED cagiran
    /\ LET r == AnomaliTara(1, << >>, ruzgar_hizlari, ruzgar_yonleri, sicakliklar,
                            zaman_damgalari, istat, DURUM_KODLARI)
       IN  /\ anomaliler' = r.liste
           /\ hata_tipi' = r.hata
           /\ pc' = IF r.hata = "" THEN pc ELSE "raised"
    /\ i' = IF Len(ruzgar_hizlari) > 0 THEN Len(ruzgar_hizlari) - 1 ELSE i
    /\ bilesen' = Ilerle(bilesen, "a", "bitti")
    /\ UNCHANGED << data, data_none, DURUM_KODLARI,
                    ruzgar_hizlari, ruzgar_yonleri, sicakliklar, zaman_damgalari,
                    istat, hiz_artis_periyotlari,
                    hiz_azalis_periyotlari, sabit_periyotlar,
                    yon_frekans, hakim_yon, yon_dagilim,
                    saat_analizi, current_hour, hour_speeds, rapor >>

\* lines 219-223
BilesenTrendBasla ==
    /\ pc = "anomali"
    /\ bilesen.t = "hazir"
    /\ UNCHANGED cagiran
    /\ hiz_artis_periyotlari' = << >>
    /\ hiz_azalis_periyotlari' = << >>
    /\ sabit_periyotlar' = << >>
    /\ i' = TrendIlkIndeks(i)
    /\ bilesen' = Ilerle(bilesen, "t", "suruyor")
    /\ UNCHANGED << data, data_none, pc, hata_tipi, DURUM_KODLARI,
                    ruzgar_hizlari, ruzgar_yonleri, sicakliklar, zaman_damgalari,
                    istat, anomaliler, yon_frekans, hakim_yon, yon_dagilim,
                    saat_analizi, current_hour, hour_speeds, rapor >>

\* lines 224-267: one iteration of the outer while loop
BilesenTrendAdim ==
    /\ pc = "anomali"
    /\ bilesen.t = "suruyor"
    /\ UNCHANGED cagiran
    /\ i < Len(ruzgar_hizlari) - 1
    /\ LET r == TrendAdimSonucu(ruzgar_hizlari, zaman_damgalari, i,
                                hiz_artis_periyotlari, hiz_azalis_periyotlari,
                                sabit_periyotlar, DURUM_KODLARI)
       IN  /\ hiz_artis_periyotlari' = r.artis
           /\ hiz_azalis_periyotlari' = r.azalis
           /\ sabit_periyotlar' = r.sabit
           /\ i' = r.i
    /\ bilesen' = Ilerle(bilesen, "t", "suruyor")
    /\ UNCHANGED << data, data_none, pc, hata_tipi, DURUM_KODLARI,
                    ruzgar_hizlari, ruzgar_yonleri, sicakliklar, zaman_damgalari,
                    istat, anomaliler, yon_frekans, hakim_yon, yon_dagilim,
                    saat_analizi, current_hour, hour_speeds, rapor >>

\* line 224 false
BilesenTrendBitir ==
    /\ pc = "anomali"
    /\ bilesen.t = "suruyor"
    /\ UNCHANGED cagiran
    /\ ~(i < Len(ruzgar_hizlari) - 1)
    /\ bilesen' = Ilerle(bilesen, "t", "bitti")
    /\ UNCHANGED << data, data_none, pc, hata_tipi, DURUM_KODLARI,
                    ruzgar_hizlari, ruzgar_yonleri, sicakliklar, zaman_damgalari,
                    istat, anomaliler, i, hiz_artis_periyotlari,
                    hiz_azalis_periyotlari, sabit_periyotlar,
                    yon_frekans, hakim_yon, yon_dagilim,
                    saat_analizi, current_hour, hour_speeds, rapor >>

\* lines 287-299
BilesenYon ==
    /\ pc = "anomali"
    /\ bilesen.d = "hazir"
    /\ UNCHANGED cagiran
    /\ LET frek == YonFrekans(ruzgar_yonleri, << >>)
       IN  /\ yon_frekans' = frek
           /\ hakim_yon' = HakimYon(frek)
           /\ yon_dagilim' = YonDagilim(frek, Len(ruzgar_yonleri))
    /\ bilesen' = Ilerle(bilesen, "d", "bitti")
    /\ UNCHANGED << data, data_none, pc, hata_tipi, DURUM_KODLARI,
                    ruzgar_hizlari, ruzgar_yonleri, sicakliklar, zaman_damgalari,
                    istat, anomaliler, i, hiz_artis_periyotlari,
                    hiz_azalis_periyotlari, sabit_periyotlar,
                    saat_analizi, current_hour, hour_speeds, rapor >>

\* lines 317-349
BilesenSaatTara ==
    /\ pc = "anomali"
    /\ bilesen.h = "hazir"
    /\ UNCHANGED cagiran
    /\ LET r == SaatTara(data, 1, -1, << >>, << >>, istat, DURUM_KODLARI)
       IN  /\ current_hour' = r.current_hour
           /\ hour_speeds' = r.hour_speeds
           /\ saat_analizi' = r.saat_analizi
    /\ bilesen' = Ilerle(bilesen, "h", "suruyor")
    /\ UNCHANGED << data, data_none, pc, hata_tipi, DURUM_KODLARI,
                    ruzgar_hizlari, ruzgar_yonleri, sicakliklar, zaman_damgalari,
                    istat, anomaliler, i, hiz_artis_periyotlari,
                    hiz_azalis_periyotlari, sabit_periyotlar,
                    yon_frekans, hakim_yon, yon_dagilim, rapor >>

\* lines 351-367
BilesenSaatSon ==
    /\ pc = "anomali"
    /\ bilesen.h = "suruyor"
    /\ UNCHANGED cagiran
    /\ saat_analizi' = SonKovaEkle(saat_analizi, current_hour, hour_speeds,
                                   istat, DURUM_KODLARI)
    /\ bilesen' = Ilerle(bilesen, "h", "bitti")
    /\ UNCHANGED << data, data_none, pc, hata_tipi, DURUM_KODLARI,
                    ruzgar_hizlari, ruzgar_yonleri, sicakliklar, zaman_damgalari,
                    istat, anomaliler, i, hiz_artis_periyotlari,
                    hiz_azalis_periyotlari, sabit_periyotlar,
                    yon_frekans, hakim_yon, yon_dagilim,
                    current_hour, hour_speeds, rapor >>

\* all four are through: on to the report at line 394
BilesenlerBitti ==
    /\ pc = "anomali"
    /\ \A x \in Bilesenler : bilesen[x] = "bitti"
    /\ pc' = "rapor"
    /\ UNCHANGED cagiran
    /\ UNCHANGED << data, data_none, hata_tipi, DURUM_KODLARI,
                    ruzgar_hizlari, ruzgar_yonleri, sicakliklar, zaman_damgalari,
                    istat, anomaliler, i, hiz_artis_periyotlari,
                    hiz_azalis_periyotlari, sabit_periyotlar,
                    yon_frekans, hakim_yon, yon_dagilim,
                    saat_analizi, current_hour, hour_speeds, rapor, bilesen >>

InitAny == Init /\ data \in AnyInputs

NextAny ==
    \/ BosVeri
    \/ VeriToplama
    \/ Istatistik
    \/ BilesenAnomali
    \/ BilesenTrendBasla
    \/ BilesenTrendAdim
    \/ BilesenTrendBitir
    \/ BilesenYon
    \/ BilesenSaatTara
    \/ BilesenSaatSon
    \/ BilesenlerBitti
    \/ RaporOlustur

AnySpec == InitAny /\ [][NextAny]_vars

----------------------------------------------------------------------------
(* Properties *)

Returned == pc = "done" /\ rapor.durum = "BASARILI"

\* C1: for an empty sequence, or None, windanalysis returns the failure
\* record (status BASARISIZ, code -1, an error text and nothing else) without
\* raising, and no statistic, anomaly, trend, direction or hourly step has run.
C1_EmptyInputFails ==
    ((data_none \/ Len(data) = 0) /\ pc # "start") =>
        /\ pc = "done"
        /\ hata_tipi = ""
        /\ DOMAIN rapor = {"hata", "durum_kodu", "durum"}
        /\ rapor.durum = "BASARISIZ"
        /\ rapor.durum_kodu = -1
        /\ rapor.hata # ""
        /\ ~istat.bound
        /\ ruzgar_hizlari = << >>
        /\ anomaliler = << >>
        /\ hiz_artis_periyotlari = << >>
        /\ hiz_azalis_periyotlari = << >>
        /\ sabit_periyotlar = << >>
        /\ yon_frekans = << >>
        /\ yon_dagilim = << >>
        /\ saat_analizi = << >>
        /\ hour_speeds = << >>

C1_Witness ==
    /\ ~data_none
    /\ Len(data) = 0
    /\ pc = "done"
    /\ rapor.durum = "BASARISIZ"

\* C2: once the statistics of a non-empty sequence are computed,
\* min <= mean <= max, stddev >= 0, volatility >= 0, lower >= 0,
\* upper = mean + 1.5*stddev and lower = max(0, mean - 1.5*stddev).
C2_StatisticsBounds ==
    istat.bound =>
        LET ort == istat.ortalama_hiz
            vn  == istat.vn
            vd  == istat.vd
            raw == Sub(ort, Scale(istat.std_sapma, 3, 2))
        IN  /\ Len(ruzgar_hizlari) > 0
            /\ \A k \in 1..Len(ruzgar_hizlari) :
                  /\ istat.min_hiz <= ruzgar_hizlari[k]
                  /\ ruzgar_hizlari[k] <= istat.max_hiz
            /\ istat.min_hiz * ort.ad <= ort.an
            /\ ort.an <= istat.max_hiz * ort.ad
            /\ ort.an * Len(ruzgar_hizlari) = SumSeq(ruzgar_hizlari) * ort.ad
            /\ Sign(istat.std_sapma, vn, vd) >= 0
            /\ Sign(istat.volatilite_orani, vn, vd) >= 0
            /\ Sign(istat.alt_esik, vn, vd) >= 0
            /\ Sign(Sub(istat.ust_esik, Add(ort, Scale(istat.std_sapma, 3, 2))), vn, vd) = 0
            /\ IF Sign(raw, vn, vd) > 0
               THEN Sign(Sub(istat.alt_esik, raw), vn, vd) = 0
               ELSE Sign(istat.alt_esik, vn, vd) = 0

\* a sequence with a negative mean, a positive deviation and a clamped lower threshold
C2_Witness ==
    /\ istat.bound
    /\ istat.ortalama_hiz.an < 0
    /\ Sign(istat.std_sapma, istat.vn, istat.vd) > 0
    /\ Sign(istat.alt_esik, istat.vn, istat.vd) = 0

\* C3: for every non-empty sequence, negative speeds included, windanalysis
\* returns a report and no division fault leaves it.
C3_NoDivisionFault == hata_tipi # "ZeroDivisionError"

\* C4: the overall status follows the strict precedence volatility > 30,
\* then max > upper, then min < lower, then NORMAL; UNSTABLE wins even when a
\* threshold is exceeded as well.
C4_ClassificationPrecedence ==
    istat.bound =>
        LET vn == istat.vn
            vd == istat.vd
            unstable == Gt(istat.volatilite_orani, Rat(30, 1), vn, vd)
            high == Gt(Rat(istat.max_hiz, 1), istat.ust_esik, vn, vd)
            low  == Lt(Rat(istat.min_hiz, 1), istat.alt_esik, vn, vd)
        IN  /\ istat.genel_durum \in {"ISTIKRARSIZ", "YUKSEK_RUZGAR", "DUSUK_RUZGAR", "NORMAL"}
            /\ unstable => istat.genel_durum = "ISTIKRARSIZ"
            /\ (~unstable /\ high) => istat.genel_durum = "YUKSEK_RUZGAR"
            /\ (~unstable /\ ~high /\ low) => istat.genel_durum = "DUSUK_RUZGAR"
            /\ (~unstable /\ ~high /\ ~low) => istat.genel_durum = "NORMAL"
            /\ Returned => rapor.genel_durum.durum = istat.genel_durum

\* volatility above 30 together with a maximum above the upper threshold
C4_Witness ==
    /\ Returned
    /\ Gt(istat.volatilite_orani, Rat(30, 1), istat.vn, istat.vd)
    /\ Gt(Rat(istat.max_hiz, 1), istat.ust_esik, istat.vn, istat.vd)
    /\ rapor.genel_durum.durum = "ISTIKRARSIZ"

Kayitlar == rapor.anomali_raporu.tespit_edilen_anomaliler

UstRapor == rapor.istatistiksel_ozet.ust_anomali_esigi_kmh

AltRapor == rapor.istatistiksel_ozet.alt_anomali_esigi_kmh

C6_LowAnomalyNeedsPositiveLower ==
    Returned =>
        /\ \A j \in 1..Len(Kayitlar) :
              Kayitlar[j].durum = "ANOMALI_DUSUK" =>
                  /\ Kayitlar[j].hiz = data[Kayitlar[j].zaman + 1].ruzgar.hiz
                  /\ Lt(Rat(Kayitlar[j].hiz, 1), AltRapor, istat.vn, istat.vd)
                  /\ Sign(AltRapor, istat.vn, istat.vd) > 0
        /\ Sign(AltRapor, istat.vn, istat.vd) <= 0 =>
              \A j \in 1..Len(Kayitlar) : Kayitlar[j].durum # "ANOMALI_DUSUK"

C6_Witness ==
    /\ Returned
    /\ \E j \in 1..Len(Kayitlar) : Kayitlar[j].durum = "ANOMALI_DUSUK"

\* a speed below the clamped lower threshold
C6_ClampedCase ==
    /\ Returned
    /\ Sign(AltRapor, istat.vn, istat.vd) = 0
    /\ \E k \in 1..Len(data) : data[k].ruzgar.hiz < 0

\* C7: the anomaly records of a returned report are, in input order and one
\* per sample, exactly the samples above the upper threshold (ANOMALI_YUKSEK)
\* or below a positive lower threshold (ANOMALI_DUSUK); the count is the
\* number of records and the ratio count/total*100.
C7_AnomalyRecordsExact ==
    Returned =>
        LET high(k) == Gt(Rat(data[k].ruzgar.hiz, 1), UstRapor, istat.vn, istat.vd)
            low(k)  == /\ Lt(Rat(data[k].ruzgar.hiz, 1), AltRapor, istat.vn, istat.vd)
                       /\ Sign(AltRapor, istat.vn, istat.vd) > 0
        IN  /\ \A j \in 1..Len(Kayitlar) : Kayitlar[j].zaman + 1 \in 1..Len(data)
            /\ \A j, l \in 1..Len(Kayitlar) :
                  j < l => Kayitlar[j].zaman < Kayitlar[l].zaman
            /\ \A k \in 1..Len(data) :
                  (\E j \in 1..Len(Kayitlar) : Kayitlar[j].zaman = k - 1)
                      <=> (high(k) \/ low(k))
            /\ \A j \in 1..Len(Kayitlar) :
                  LET k == Kayitlar[j].zaman + 1
                  IN  /\ Kayitlar[j].hiz = data[k].ruzgar.hiz
                      /\ Kayitlar[j].yon = data[k].ruzgar.yon
                      /\ Kayitlar[j].durum =
                            IF high(k) THEN "ANOMALI_YUKSEK" ELSE "ANOMALI_DUSUK"
            /\ rapor.anomali_raporu.toplam_anomali_sayisi = Len(Kayitlar)
            /\ 2 * Abs(rapor.anomali_raporu.anomali_orani_yuzde * Len(data)
                       - 10000 * Len(Kayitlar)) <= Len(data)

\* a report with a high and a low record among unflagged samples
C7_Witness ==
    /\ Returned
    /\ Len(Kayitlar) >= 2
    /\ Len(Kayitlar) < Len(data)
    /\ \E j \in 1..Len(Kayitlar) : Kayitlar[j].durum = "ANOMALI_YUKSEK"
    /\ \E j \in 1..Len(Kayitlar) : Kayitlar[j].durum = "ANOMALI_DUSUK"

Range(q) == {q[j] : j \in 1..Len(q)}

TumPeriyotlar ==
    Range(hiz_artis_periyotlari) \cup Range(hiz_azalis_periyotlari)
        \cup Range(sabit_periyotlar)

Kronolojik(q) ==
    \A j, l \in 1..Len(q) : j < l => q[j].baslangic_saat < q[l].baslangic_saat

\* C8: the recorded trend periods of the three lists cover pairwise disjoint
\* index ranges, each ends after it starts, each starts one index after the
\* run before it ended, and every list is in increasing start index.
C8_TrendPeriodsDisjoint ==
    /\ \A p \in TumPeriyotlar :
          /\ p.bitis_saat > p.baslangic_saat
          /\ p.sure_saat = p.bitis_saat - p.baslangic_saat
          /\ p.baslangic_saat = 0
                \/ \E q \in TumPeriyotlar : q.bitis_saat + 1 = p.baslangic_saat
    /\ \A p, q \in TumPeriyotlar :
          p # q => (p.bitis_saat < q.baslangic_saat \/ q.bitis_saat < p.baslangic_saat)
    /\ Cardinality(TumPeriyotlar) =
          Len(hiz_artis_periyotlari) + Len(hiz_azalis_periyotlari) + Len(sabit_periyotlar)
    /\ Kronolojik(hiz_artis_periyotlari)
    /\ Kronolojik(hiz_azalis_periyotlari)
    /\ Kronolojik(sabit_periyotlar)
    /\ (pc = "trend" /\ TumPeriyotlar # {}) =>
          \E p \in TumPeriyotlar :
              /\ p.bitis_saat + 1 = i
              /\ \A q \in TumPeriyotlar : q.bitis_saat <= p.bitis_saat
    /\ (pc = "trend" /\ TumPeriyotlar = {}) => i = 0

\* the scan is over and has recorded a rising, a falling and a stable period
C8_Witness ==
    /\ pc = "saatlik"
    /\ hiz_artis_periyotlari # << >>
    /\ hiz_azalis_periyotlari # << >>
    /\ sabit_periyotlar # << >>

YonSayisi(d) == Cardinality({k \in 1..Len(ruzgar_yonleri) : ruzgar_yonleri[k] = d})

\* C9: the dominant direction has the highest number of observations, and
\* among the directions with that number it is the one met first in the input.
C9_DominantFirstMaximum ==
    hakim_yon # 0 =>
        /\ \E k \in 1..Len(ruzgar_yonleri) :
              /\ ruzgar_yonleri[k] = hakim_yon
              /\ \A l \in 1..Len(ruzgar_yonleri) :
                    /\ YonSayisi(ruzgar_yonleri[l]) <= YonSayisi(hakim_yon)
                    /\ YonSayisi(ruzgar_yonleri[l]) = YonSayisi(hakim_yon) =>
                          \E m \in 1..l : ruzgar_yonleri[m] = hakim_yon
        /\ Returned => rapor.yon_analizi.hakim_ruzgar_yonu = hakim_yon

\* two directions share the highest count and the one met first is not the
\* one with the smaller code
C9_Witness ==
    /\ hakim_yon # 0
    /\ \E k \in 1..Len(ruzgar_yonleri) :
          /\ ruzgar_yonleri[k] < hakim_yon
          /\ YonSayisi(ruzgar_yonleri[k]) = YonSayisi(hakim_yon)

RECURSIVE SumFrekans(_)
SumFrekans(q) == IF q = << >> THEN 0 ELSE Head(q).frekans + SumFrekans(Tail(q))

RECURSIVE SumYuzde(_)
SumYuzde(q) == IF q = << >> THEN 0 ELSE Head(q).yuzde + SumYuzde(Tail(q))

\* the direction table is in non-increasing count, holds every direction
\* once with its count, and every percentage is count/total*100 to the
\* nearest hundredth
YonTablosuDuzgun ==
    /\ \A j, l \in 1..Len(yon_dagilim) :
          j < l => /\ yon_dagilim[j].frekans >= yon_dagilim[l].frekans
                   /\ yon_dagilim[j].yon # yon_dagilim[l].yon
    /\ \A j \in 1..Len(yon_dagilim) :
          /\ yon_dagilim[j].frekans = YonSayisi(yon_dagilim[j].yon)
          /\ 2 * Abs(yon_dagilim[j].yuzde * Len(data) - 10000 * yon_dagilim[j].frekans)
                <= Len(data)
    /\ SumFrekans(yon_dagilim) = Len(data)

\* C10 as claimed: for every non-empty input the buckets are in
\* non-increasing count, the counts sum to the number of samples and the
\* percentages sum to 100 within 0.1, for any number of distinct directions.
C10_PercentSumAnyDirections ==
    hakim_yon # 0 =>
        /\ YonTablosuDuzgun
        /\ Abs(SumYuzde(yon_dagilim) - 10000) <= 10

\* C10 amended: the same, the percentage sum within 0.1 of 100 for inputs
\* with at most 20 distinct direction values.
C10_PercentSumUpTo20Directions ==
    hakim_yon # 0 =>
        /\ YonTablosuDuzgun
        /\ Len(yon_dagilim) <= 20 => Abs(SumYuzde(yon_dagilim) - 10000) <= 10

\* twenty directions whose rounded percentages do not add up to 100
C10_Witness ==
    /\ Returned
    /\ Len(yon_dagilim) = 20
    /\ SumYuzde(yon_dagilim) # 10000
    /\ rapor.yon_analizi.yon_dagilimi = yon_dagilim
----------------------------------------------------------------------------
Saatlik == rapor.saatlik_analiz

RECURSIVE SumVeriSayisi(_)
SumVeriSayisi(q) == IF q = << >> THEN 0 ELSE Head(q).veri_sayisi + SumVeriSayisi(Tail(q))

\* C11: in every report of a non-empty input the sample counts of the hour
\* buckets add up to the number of samples, and no bucket is empty
C11_HourCountsSum ==
    Returned =>
        /\ SumVeriSayisi(Saatlik) = Len(data)
        /\ \A j \in 1..Len(Saatlik) : Saatlik[j].veri_sayisi >= 1

\* a report with a closed bucket of two samples and a flushed last bucket
C11_Witness ==
    /\ Returned
    /\ Len(Saatlik) >= 2
    /\ Saatlik[1].veri_sayisi = 2
    /\ Saatlik[Len(Saatlik)].veri_sayisi = 1
    /\ Len(data) = 3

----------------------------------------------------------------------------
\* the current call and the one before it were given the same samples and
\* both returned a report
AyniGirdi ==
    /\ Returned
    /\ cagri > 1
    /\ onceki_rapor.durum = "BASARILI"
    /\ onceki_data = data

\* C12: two calls given equal sample sequences (the caller passes nothing
\* else, in particular no clock value) return reports equal in every field
C12_EqualInputEqualReport ==
    (AyniGirdi /\ DURUM_KODLARI = DurumKodlariTablosu) => rapor = onceki_rapor

\* C13: whatever the caller wrote into the report of an earlier call, the
\* report of a later call with the same samples has the same content (the
\* time of the report apart)
C13_LaterReportOwnInputOnly ==
    AyniGirdi => [rapor EXCEPT !.rapor_zamani = 0] = [onceki_rapor EXCEPT !.rapor_zamani = 0]

----------------------------------------------------------------------------
TekOrnek == Returned /\ Len(data) = 1

\* what C14 states of a one-sample report, the overall status apart
TekOrnekRaporu ==
    LET hiz == data[1].ruzgar.hiz
        oz  == rapor.istatistiksel_ozet
    IN  /\ oz.standart_sapma = Rat(0, 1)
        /\ oz.ust_anomali_esigi_kmh = Rat(hiz, 1)
        /\ oz.ortalama_ruzgar_hizi_kmh = 100 * hiz
        /\ Kayitlar = << >>
        /\ rapor.anomali_raporu.toplam_anomali_sayisi = 0
        /\ TumPeriyotlar = {}
        /\ Len(Saatlik) = 1
        /\ Saatlik[1].durum = "NORMAL"

\* C14 as stated: a one-sample input gives stddev 0, upper = mean = the
\* speed, no anomaly, no trend period, one NORMAL hour bucket and the overall
\* status NORMAL
C14_SingleSampleNormal ==
    TekOrnek => (TekOrnekRaporu /\ rapor.genel_durum.durum = "NORMAL")

\* C14 amended: the same, with the overall status NORMAL for a speed that is
\* not negative and DUSUK_RUZGAR for a negative one
C14_SingleSampleNormalIfNonNegative ==
    TekOrnek =>
        /\ TekOrnekRaporu
        /\ rapor.genel_durum.durum =
             IF data[1].ruzgar.hiz >= 0 THEN "NORMAL" ELSE "DUSUK_RUZGAR"

\* a one-sample report of a positive speed
C14_Witness == TekOrnek /\ data[1].ruzgar.hiz > 0 /\ rapor.genel_durum.durum = "NORMAL"

----------------------------------------------------------------------------
OrnekRaporu == Returned /\ data = OrnekVeri

\* the fields of a trend period that C15 names
PeriyotOzeti(p) ==
    << p.durum, p.baslangic_saat, p.bitis_saat, p.baslangic_hiz, p.bitis_hiz, p.degisim >>

PeriyotOzetleri(q) == [j \in 1..Len(q) |-> PeriyotOzeti(q[j])]

\* C15: on the example data the trend scan records exactly three periods:
\* stable over indices 0-2 (11 to 11), rising over 3-5 (13 to 22, +9) and
\* falling over 6-8 (18 to 12, -6)
C15_FixtureTrends ==
    OrnekRaporu =>
        /\ PeriyotOzetleri(rapor.trend_analizi.sabit_periyotlar)
             = << << "TREND_SABIT", 0, 2, 11, 11, 0 >> >>
        /\ PeriyotOzetleri(rapor.trend_analizi.artis_periyotlari)
             = << << "TREND_ARTIS", 3, 5, 13, 22, 9 >> >>
        /\ PeriyotOzetleri(rapor.trend_analizi.azalis_periyotlari)
             = << << "TREND_AZALIS", 6, 8, 18, 12, -6 >> >>

\* the report of the example data, with its three trend lists filled
C15_Witness ==
    /\ OrnekRaporu
    /\ rapor.analiz_kapsami.toplam_veri_noktasi = 9
    /\ Len(rapor.trend_analizi.sabit_periyotlar) = 1

\* C16: on the example data the overall status is YUKSEK_RUZGAR (volatility
\* at most 30, maximum 22 above the upper threshold) and the only anomaly
\* record is the sixth sample, speed 22, ANOMALI_YUKSEK, about 55.9 percent
\* above the mean
C16_FixtureHighAnomaly ==
    OrnekRaporu =>
        /\ rapor.genel_durum.durum = "YUKSEK_RUZGAR"
        /\ ~Gt(rapor.istatistiksel_ozet.volatilite_orani_yuzde, Rat(30, 1),
               istat.vn, istat.vd)
        /\ rapor.istatistiksel_ozet.maksimum_ruzgar_hizi_kmh = 22
        /\ Gt(Rat(22, 1), UstRapor, istat.vn, istat.vd)
        /\ Len(Kayitlar) = 1
        /\ rapor.anomali_raporu.toplam_anomali_sayisi = 1
        /\ Kayitlar[1].zaman = 5
        /\ Kayitlar[1].hiz = 22
        /\ Kayitlar[1].durum = "ANOMALI_YUKSEK"
        /\ Kayitlar[1].sapma_yuzdesi = 5591

\* the report of the example data, with its anomaly record
C16_Witness ==
    /\ OrnekRaporu
    /\ Len(Kayitlar) > 0
    /\ Kayitlar[1].hiz = MaxSeq(OrnekHizlar)

----------------------------------------------------------------------------
\* the speed at Python index k
Hiz(k) == ruzgar_hizlari[k + 1]

SonIndeks == Len(ruzgar_hizlari) - 1

\* the pattern of a classification between two neighbouring speeds
Uyar(durum, a, b) ==
    IF durum = "TREND_ARTIS" THEN b >= a
    ELSE IF durum = "TREND_AZALIS" THEN b <= a
    ELSE Abs(b - a) <= 1

SagaUzamaz(p) ==
    \/ p.bitis_saat = SonIndeks
    \/ ~Uyar(p.durum, Hiz(p.bitis_saat), Hiz(p.bitis_saat + 1))

SolaUzamaz(p) ==
    \/ p.baslangic_saat = 0
    \/ ~Uyar(p.durum, Hiz(p.baslangic_saat - 1), Hiz(p.baslangic_saat))

\* C17 as stated: no recorded period can take in the sample on its left or
\* the sample on its right without breaking the pattern of its classification
C17_RunsMaximalBothSides ==
    \A p \in TumPeriyotlar : SagaUzamaz(p) /\ SolaUzamaz(p)

\* C17 amended: no recorded period can take in the sample on its right
\* without breaking the pattern of its classification
C17_RunsMaximalOnRight ==
    \A p \in TumPeriyotlar : SagaUzamaz(p)

\* two periods in one report: the first stops inside the list, the second
\* could have taken in the sample on its left
C17_Witness ==
    /\ Returned
    /\ \E p \in TumPeriyotlar : p.bitis_saat < SonIndeks /\ SagaUzamaz(p)
    /\ \E p \in TumPeriyotlar : ~SolaUzamaz(p)

----------------------------------------------------------------------------
\* the classification C18 gives a run that starts at index b
BaslangicTuru(b) ==
    IF Hiz(b + 1) > Hiz(b) + 1 THEN "TREND_ARTIS"
    ELSE IF Hiz(b + 1) < Hiz(b) - 1 THEN "TREND_AZALIS"
    ELSE "TREND_SABIT"

\* the end C18 gives a run of classification durum that starts at index b
BitisIndeksi(b, durum) ==
    CHOOSE e \in b..SonIndeks :
        /\ e = SonIndeks \/ ~Uyar(durum, Hiz(e), Hiz(e + 1))
        /\ \A k \in b..(e - 1) : Uyar(durum, Hiz(k), Hiz(k + 1))

\* the indices at which the scan has started a run
RunBaslangiclari ==
    {b \in 0..(SonIndeks - 1) :
        /\ b < i
        /\ b = 0 \/ \E p \in TumPeriyotlar : p.bitis_saat + 1 = b}

\* C18: the run that starts at index b is rising iff speed[b+1] > speed[b]+1,
\* falling iff speed[b+1] < speed[b]-1 and stable otherwise, and it ends at
\* the first index e >= b that is the last index or at which the
\* continuation test of its classification fails
C18_RunKindAndEnd ==
    pc \in {"trend", "saatlik", "saatlik_son", "rapor", "done"} =>
        /\ \A p \in TumPeriyotlar :
              /\ p.baslangic_saat \in RunBaslangiclari
              /\ p.durum = BaslangicTuru(p.baslangic_saat)
              /\ p.bitis_saat = BitisIndeksi(p.baslangic_saat, p.durum)
        /\ \A b \in RunBaslangiclari : \E p \in TumPeriyotlar : p.baslangic_saat = b

\* a report with a run of each classification, one of them three samples long
C18_Witness ==
    /\ Returned
    /\ \A d \in {"TREND_ARTIS", "TREND_AZALIS", "TREND_SABIT"} :
          \E p \in TumPeriyotlar : p.durum = d
    /\ \E p \in TumPeriyotlar : p.bitis_saat - p.baslangic_saat >= 2

----------------------------------------------------------------------------
VeriHizlari == [k \in 1..Len(data) |-> data[k].ruzgar.hiz]

VeriSicakliklari == [k \in 1..Len(data) |-> data[k].sicaklik]

\* the tags C19 expects for the sample at Python index k, in their order
BeklenenNedenler(k) ==
    LET n == Len(data)
        artis == IF k > 0 /\ data[k].ruzgar.hiz * n < SumSeq(VeriHizlari)
                 THEN << "Ani ruzgar artisi - Atmosferik degisim" >> ELSE << >>
        soguk == IF data[k + 1].sicaklik * n < SumSeq(VeriSicakliklari) - 2 * n
                 THEN << "Dusuk sicaklik korelasyonu" >> ELSE << >>
        tepe  == IF 10 * data[k + 1].ruzgar.hiz >= 9 * MaxSeq(VeriHizlari)
                 THEN << "Donem maksimum seviyesine yakin" >> ELSE << >>
    IN  artis \o soguk \o tepe

YuksekKayitlar == {j \in 1..Len(Kayitlar) : Kayitlar[j].durum = "ANOMALI_YUKSEK"}

\* C19: the reasons of an ANOMALI_YUKSEK record are, in this order, the tags
\* whose conditions hold (previous sample below the mean, temperature more
\* than 2 below the mean temperature, speed at least 0.9 of the maximum);
\* the list is the single fallback tag exactly when none holds, never empty
C19_HighReasons ==
    Returned =>
        \A j \in YuksekKayitlar :
            LET beklenen == BeklenenNedenler(Kayitlar[j].zaman)
                neden == Kayitlar[j].neden_analizi
            IN  /\ neden # << >>
                /\ beklenen # << >> => neden = beklenen
                /\ (neden = << "Standart meteorolojik varyasyon" >>) <=> (beklenen = << >>)

\* one report with a record that carries all three tags and a record that
\* carries the fallback tag
C19_Witness ==
    /\ Returned
    /\ \E j \in YuksekKayitlar : Len(Kayitlar[j].neden_analizi) = 3
    /\ \E j \in YuksekKayitlar :
          Kayitlar[j].neden_analizi = << "Standart meteorolojik varyasyon" >>

----------------------------------------------------------------------------
VeriSaati(k) == data[k].zaman.saat

\* the samples at which the hour differs from the hour of the sample before
SaatBaslangiclari == {k \in 1..Len(data) : k = 1 \/ VeriSaati(k) # VeriSaati(k - 1)}

\* the j-th of the samples from k on at which the hour changes
RECURSIVE KosuBul(_, _)
KosuBul(k, j) ==
    IF k = 1 \/ VeriSaati(k) # VeriSaati(k - 1)
    THEN IF j = 1 THEN k ELSE KosuBul(k + 1, j - 1)
    ELSE KosuBul(k + 1, j)

\* the first sample of the j-th maximal run of equal hours
KosuBasi(j) == KosuBul(1, j)

\* its last sample
KosuSonu(j) == IF j = Cardinality(SaatBaslangiclari) THEN Len(data) ELSE KosuBasi(j + 1) - 1

\* C20: the hour buckets are the maximal runs of consecutive samples with
\* equal hour, in input order: the j-th bucket carries the hour, the number
\* and the mean speed of the samples of the j-th run, neighbouring buckets
\* carry different hours, and an hour that comes back gets a new bucket
C20_BucketsAreHourRuns ==
    Returned =>
        /\ Len(Saatlik) = Cardinality(SaatBaslangiclari)
        /\ \A j \in 1..Len(Saatlik) :
              /\ Saatlik[j].saat = VeriSaati(KosuBasi(j))
              /\ Saatlik[j].veri_sayisi = KosuSonu(j) - KosuBasi(j) + 1
              /\ Saatlik[j].ortalama_hiz =
                   Round2(SumSeq(SubSeq(VeriHizlari, KosuBasi(j), KosuSonu(j))),
                          KosuSonu(j) - KosuBasi(j) + 1)
        /\ \A j \in 1..(Len(Saatlik) - 1) : Saatlik[j].saat # Saatlik[j + 1].saat

\* a report in which an hour comes back after a different hour
C20_Witness ==
    /\ Returned
    /\ Len(Saatlik) = 3
    /\ Saatlik[1].saat = Saatlik[3].saat
    /\ Saatlik[1].saat # Saatlik[2].saat

----------------------------------------------------------------------------
\* sum and number of the speeds of the j-th run of equal hours
KosuToplami(j) == SumSeq(SubSeq(VeriHizlari, KosuBasi(j), KosuSonu(j)))

KosuAdedi(j) == KosuSonu(j) - KosuBasi(j) + 1

\* numerator of (mean of run j) - (global mean) over KosuAdedi(j) * Len(data)
KosuFarki(j) == KosuToplami(j) * Len(data) - SumSeq(VeriHizlari) * KosuAdedi(j)

\* |mean of run j - global mean| > c/d standard deviations, by squaring
SigmaDisi(j, c, d) ==
    LET n   == Len(data)
        vn  == n * SumSq(VeriHizlari) - SumSeq(VeriHizlari) * SumSeq(VeriHizlari)
        vd  == IF n > 1 THEN n * (n - 1) ELSE 1
        pay == KosuAdedi(j) * n
    IN  KosuFarki(j) * KosuFarki(j) * vd * d * d > vn * pay * pay * c * c

BirSigmaDurumu(j) ==
    IF KosuFarki(j) > 0 /\ SigmaDisi(j, 1, 1) THEN "YUKSEK_RUZGAR"
    ELSE IF KosuFarki(j) < 0 /\ SigmaDisi(j, 1, 1) THEN "DUSUK_RUZGAR"
    ELSE "NORMAL"

\* C21: every hour bucket, the last one included, is YUKSEK_RUZGAR when its
\* mean speed is above mean + stddev, DUSUK_RUZGAR when it is below
\* mean - stddev and NORMAL otherwise (one sigma, not 1.5)
C21_HourBucketsOneSigma ==
    Returned =>
        \A j \in 1..Len(Saatlik) :
            /\ Saatlik[j].durum = BirSigmaDurumu(j)
            /\ Saatlik[j].durum_kodu = DurumKodlariTablosu[BirSigmaDurumu(j)].kod

\* a report whose last bucket is outside one sigma and inside 1.5 sigma, and
\* whose earlier buckets include one that is not NORMAL either
C21_Witness ==
    /\ Returned
    /\ Len(Saatlik) >= 3
    /\ Saatlik[Len(Saatlik)].durum # "NORMAL"
    /\ ~SigmaDisi(Len(Saatlik), 3, 2)
    /\ \E j \in 1..(Len(Saatlik) - 1) : Saatlik[j].durum # "NORMAL"

----------------------------------------------------------------------------
\* the report of the call when the analyses run in the order of the source
SiraliRapor(zaman) ==
    LET st == Istatistikler(ruzgar_hizlari)
        anomali == AnomaliTara(1, << >>, ruzgar_hizlari, ruzgar_yonleri, sicakliklar,
                               zaman_damgalari, st, DURUM_KODLARI).liste
        trend == TrendTara(ruzgar_hizlari, zaman_damgalari, 0, << >>, << >>, << >>,
                           DURUM_KODLARI)
        frek == YonFrekans(ruzgar_yonleri, << >>)
        tara == SaatTara(data, 1, -1, << >>, << >>, st, DURUM_KODLARI)
        saatlik == SonKovaEkle(tara.saat_analizi, tara.current_hour, tara.hour_speeds,
                               st, DURUM_KODLARI)
    IN  RaporKaydi(zaman, data, st, zaman_damgalari, anomali,
                   trend.artis, trend.azalis, trend.sabit,
                   HakimYon(frek), YonDagilim(frek, Len(ruzgar_yonleri)),
                   saatlik, DURUM_KODLARI)

----------------------------------------------------------------------------
PeriyotSayisi ==
    Len(hiz_artis_periyotlari) + Len(hiz_azalis_periyotlari) + Len(sabit_periyotlar)

TrendSonrasi == pc \in {"trend", "saatlik", "saatlik_son", "rapor", "done"}

\* C23: every run the trend scan begins ends after it starts, so each outer
\* iteration records exactly one period (the period that ends just before
\* the index the scan has reached), and an input of at least 2 samples has
\* at least one period.
C23_EveryRunRecorded ==
    TrendSonrasi =>
        /\ (pc = "trend" /\ i < SonIndeks) =>
               TrendBitis(ruzgar_hizlari, i, TrendTuru(ruzgar_hizlari, i)) > i
        /\ \/ i = 0 /\ PeriyotSayisi = 0
           \/ \E p \in TumPeriyotlar : p.bitis_saat = i - 1
        /\ PeriyotSayisi = Cardinality(RunBaslangiclari)
        /\ (pc # "trend" /\ Len(ruzgar_hizlari) >= 2) => PeriyotSayisi >= 1

\* a report with two runs, one of them of the least length 2
C23_Witness ==
    /\ Returned
    /\ PeriyotSayisi >= 2
    /\ \E p \in TumPeriyotlar : p.sure_saat = 1
    /\ \E p \in TumPeriyotlar : p.durum = "TREND_SABIT" /\ p.degisim # 0

----------------------------------------------------------------------------
\* the recorded periods whose index range holds sample index k
Kapsayanlar(k) ==
    {p \in TumPeriyotlar : p.baslangic_saat <= k /\ k <= p.bitis_saat}

\* C24: after the trend scan every sample index but the last lies in exactly
\* one recorded period, and the last index lies in at most one.
C24_IndicesCoveredOnce ==
    TrendSonrasi /\ pc # "trend" =>
        /\ \A k \in 0..(SonIndeks - 1) : Cardinality(Kapsayanlar(k)) = 1
        /\ SonIndeks >= 0 => Cardinality(Kapsayanlar(SonIndeks)) <= 1

\* a report of three or more samples whose last sample is in no period
C24_Witness ==
    /\ Returned
    /\ SonIndeks >= 2
    /\ Kapsayanlar(SonIndeks) = {}
    /\ PeriyotSayisi >= 1

----------------------------------------------------------------------------
\* the speeds of period p never fall (yon = 1) or never rise (yon = -1)
TekYonlu(p, yon) ==
    \A k \in p.baslangic_saat..(p.bitis_saat - 1) : yon * (Hiz(k + 1) - Hiz(k)) >= 0

\* C28: a rising period gains more than 1 from start to end over speeds that
\* never fall, a falling period loses more than 1 over speeds that never
\* rise, and a stable period changes by at most its number of steps.
C28_PeriodDeltas ==
    TrendSonrasi =>
        \A p \in TumPeriyotlar :
            /\ p.degisim = Hiz(p.bitis_saat) - Hiz(p.baslangic_saat)
            /\ p.durum = "TREND_ARTIS" => p.degisim > 1 /\ TekYonlu(p, 1)
            /\ p.durum = "TREND_AZALIS" => p.degisim < 0 - 1 /\ TekYonlu(p, 0 - 1)
            /\ p.durum = "TREND_SABIT" => Abs(p.degisim) <= p.bitis_saat - p.baslangic_saat

\* a stable period that drifts by as much as it has steps, and by more than 1
C28_Witness ==
    /\ Returned
    /\ \E p \in TumPeriyotlar :
          /\ p.durum = "TREND_SABIT"
          /\ Abs(p.degisim) >= 2
          /\ Abs(p.degisim) = p.bitis_saat - p.baslangic_saat

----------------------------------------------------------------------------
NegatifYok == \A k \in 1..Len(ruzgar_hizlari) : ruzgar_hizlari[k] >= 0

AnomaliSonrasi == pc \in {"trend", "saatlik", "saatlik_son", "rapor", "done", "raised"}

\* C25: when no speed is negative, the anomaly scan makes a record only if
\* the mean is above 0: with mean 0 the list stays empty and the division by
\* the mean never raises.
C25_NoRecordAtZeroMean ==
    (AnomaliSonrasi /\ NegatifYok) =>
        /\ pc # "raised"
        /\ hata_tipi # "ZeroDivisionError"
        /\ anomaliler # << >> => SumSeq(ruzgar_hizlari) > 0
        /\ SumSeq(ruzgar_hizlari) = 0 => anomaliler = << >>

\* a report of several samples, all of speed 0
C25_Witness ==
    /\ Returned
    /\ Len(ruzgar_hizlari) >= 2
    /\ NegatifYok
    /\ SumSeq(ruzgar_hizlari) = 0
    /\ Kayitlar = << >>

----------------------------------------------------------------------------
KayitVar(durum) == \E k \in 1..Len(Kayitlar) : Kayitlar[k].durum = durum

\* C26: when no speed is negative, NORMAL comes with no anomaly record,
\* YUKSEK_RUZGAR with at least one ANOMALI_YUKSEK record, and DUSUK_RUZGAR
\* with no ANOMALI_YUKSEK and at least one ANOMALI_DUSUK record.
C26_StatusAgreesWithRecords ==
    (Returned /\ NegatifYok) =>
        /\ rapor.genel_durum.durum = "NORMAL" => Kayitlar = << >>
        /\ rapor.genel_durum.durum = "YUKSEK_RUZGAR" => KayitVar("ANOMALI_YUKSEK")
        /\ rapor.genel_durum.durum = "DUSUK_RUZGAR" =>
               ~KayitVar("ANOMALI_YUKSEK") /\ KayitVar("ANOMALI_DUSUK")

\* a DUSUK_RUZGAR report of non-negative speeds with its low record
C26_Witness ==
    /\ Returned
    /\ NegatifYok
    /\ rapor.genel_durum.durum = "DUSUK_RUZGAR"
    /\ KayitVar("ANOMALI_DUSUK")

----------------------------------------------------------------------------
\* sample k is inside the closed interval of the two thresholds
EsiklerIcinde(k) ==
    /\ ~Gt(Rat(ruzgar_hizlari[k], 1), istat.ust_esik, istat.vn, istat.vd)
    /\ ~Lt(Rat(ruzgar_hizlari[k], 1), istat.alt_esik, istat.vn, istat.vd)

\* C27 as stated: a report has fewer anomaly records than samples and an
\* anomaly ratio below 100 percent, and some sample lies within
\* [lower, upper].
C27_SomeSampleWithinThresholds ==
    Returned =>
        /\ Len(Kayitlar) < Len(data)
        /\ rapor.anomali_raporu.anomali_orani_yuzde < 10000
        /\ \E k \in 1..Len(data) : EsiklerIcinde(k)

\* C27 amended: a report has fewer anomaly records than samples, so its
\* anomaly ratio is below 100 percent: some sample gets no record, and when
\* no speed is negative that sample lies within [lower, upper].
C27_FewerAnomaliesThanSamples ==
    Returned =>
        /\ Len(Kayitlar) < Len(data)
        /\ rapor.anomali_raporu.toplam_anomali_sayisi < rapor.analiz_kapsami.toplam_veri_noktasi
        /\ rapor.anomali_raporu.anomali_orani_yuzde < 10000
        /\ \E k \in 1..Len(data) : \A j \in 1..Len(Kayitlar) : Kayitlar[j].zaman # k - 1
        /\ NegatifYok => \E k \in 1..Len(data) : EsiklerIcinde(k)

\* a report with a high and a low record and a single sample between them
C27_Witness ==
    /\ Returned
    /\ KayitVar("ANOMALI_YUKSEK")
    /\ KayitVar("ANOMALI_DUSUK")
    /\ Len(Kayitlar) >= 2

----------------------------------------------------------------------------
Dagilim == rapor.yon_analizi.yon_dagilimi

\* C29: the dominant direction of a report is the direction of the first
\* bucket of its distribution, also when directions tie for the highest count.
C29_DominantIsFirstBucket ==
    Returned =>
        /\ Len(Dagilim) >= 1
        /\ rapor.yon_analizi.hakim_ruzgar_yonu = Dagilim[1].yon

\* three directions, the first two buckets tie and the first met in the
\* input is not the one with the smaller code
C29_Witness ==
    /\ Returned
    /\ Len(Dagilim) >= 3
    /\ Dagilim[1].frekans = Dagilim[2].frekans
    /\ Dagilim[1].yon > Dagilim[2].yon
    /\ rapor.yon_analizi.hakim_ruzgar_yonu = Dagilim[1].yon

----------------------------------------------------------------------------
\* consecutive samples always have different hours
SaatlerDegisir == \A k \in 2..Len(data) : VeriSaati(k) # VeriSaati(k - 1)

\* C30: when consecutive samples always have different hours, the hour
\* bucket of every ANOMALI_YUKSEK sample is YUKSEK_RUZGAR and the hour bucket
\* of every ANOMALI_DUSUK sample is DUSUK_RUZGAR.
C30_AnomalyBucketsAgree ==
    (Returned /\ SaatlerDegisir) =>
        /\ Len(Saatlik) = Len(data)
        /\ \A j \in 1..Len(Kayitlar) :
              LET kova == Saatlik[Kayitlar[j].zaman + 1]
              IN  /\ kova.veri_sayisi = 1
                  /\ Kayitlar[j].durum = "ANOMALI_YUKSEK" => kova.durum = "YUKSEK_RUZGAR"
                  /\ Kayitlar[j].durum = "ANOMALI_DUSUK" => kova.durum = "DUSUK_RUZGAR"

\* one-sample buckets with a high and a low anomaly among them
C30_Witness ==
    /\ Returned
    /\ SaatlerDegisir
    /\ Len(data) >= 3
    /\ KayitVar("ANOMALI_YUKSEK")
    /\ KayitVar("ANOMALI_DUSUK")

====
